---------------------------- MODULE Spec2Model ----------------------------
(***************************************************************************)
(* A model of vmtest/manage.py: the kernel build / upload orchestrator.    *)
(*                                                                         *)
(* Strings that the code takes apart or puts together (versions, commit    *)
(* names, paths) are sequences of tokens: "v5.10" is <<"v","5",".","10">>. *)
(* The payload of an upload is known by its length; a chunk read from it   *)
(* is the slice [lo, hi) of the payload.                                   *)
(*                                                                         *)
(* asyncio runs one coroutine at a time and switches only at an await, so  *)
(* every action below is the code between two suspension points.  Upload   *)
(* tasks and subprocesses make progress only while main() is suspended.    *)
(***************************************************************************)
EXTENDS Naturals, Sequences, FiniteSets, TLC

VARIABLES
    args,               \* the parsed command line (argparse namespace)
    in_git,             \* os.path.exists(".git") and os.path.exists("kernel")
    manifest,           \* the "releases" list of kernel.org's releases.json
    available,          \* get_available_kernel_releases: available
    published,          \* the pages the server lists /Public/x86_64 in
    lreq,               \* get_available_kernel_releases: url and params
    lpc,                \* where get_available_kernel_releases is
    llog,               \* history: the responses to its requests
    raw_link,           \* make_download_url: the url it is called with
    rewritten,          \* history: what make_download_url returned
    dirs,               \* the build directories on disk and their files
    builds,             \* every try_build_kernel coroutine main has started
    pc,                 \* where main() is
    exit_code,          \* process exit status once main() has ended
    to_build,           \* main: to_build, as the list of the dict's keys
    bi,                 \* main: position of the for loop in to_build
    builds_succeeded,
    builds_failed,
    uploads_succeeded,
    uploads_failed,
    pending,            \* Uploader._pending: list of (path, task)
    tasks,              \* every asyncio task created by the Uploader
    wi,                 \* Uploader.wait: position of its for loop
    wsucc,              \* Uploader.wait: local succeeded
    wfail,              \* Uploader.wait: local failed
    wret,               \* Uploader.wait: its caller ("main" or "index")
    wcalls,             \* history: what each returned wait call reported
    queued,             \* history: destinations queued since the last clear
    remote,             \* the share: its links, folders and INDEX files
    stack,              \* walk_shared_folder: stack
    ipath,              \* walk_shared_folder: path popped from the stack
    iurl,               \* walk_shared_folder: url popped from the stack
    ipage,              \* list_shared_folder: the page requested
    ifiles,             \* walk_shared_folder: files
    idirs,              \* walk_shared_folder: dirs
    ifile,              \* update_index: position of the for loop over files
    lines,              \* update_index: lines
    old_lines,          \* update_index: old_lines
    iret,               \* what update_index returned, <<>> before it has
    ilog                \* history: the requests and decisions of update_index

listv == <<published, lreq, lpc, llog>>
urlv == <<raw_link, rewritten>>
argv == <<args, in_git, manifest, available, listv, urlv>>
buildv == <<to_build, bi, builds_succeeded, builds_failed, dirs>>
upv == <<pending, tasks, queued>>
waitv == <<wi, wsucc, wfail, wret, wcalls>>
resv == <<uploads_succeeded, uploads_failed>>
walkv == <<stack, ipath, iurl, ipage, ifiles, idirs>>
bodyv == <<ifile, lines, old_lines>>
idxv == <<remote, walkv, bodyv, iret, ilog>>

vars == <<argv, buildv, builds, upv, waitv, resv, idxv, pc, exit_code>>

-----------------------------------------------------------------------------
(* Bounds of the model. *)

\* Payloads of up to MaxChunks whole chunks (plus a part of one) are uploaded.
MaxChunks == 2

-----------------------------------------------------------------------------
(* Constants of the program. *)

CHUNK_SIZE == 8 * 1024 * 1024

CONTENT_API_URL == <<"https://content.dropboxapi.com">>

\* Python's None, where the code compares a string with None.
None == "None"

\* Session identifiers the server may hand out.
SessionIds == {"sid1", "sid2"}

Min(a, b) == IF a <= b THEN a ELSE b

-----------------------------------------------------------------------------
(* Uploader *)

\* An optional keyword argument is <<>> (not given) or <<value>>.
MakeCommit(dst_path, mode, autorename) ==
    [k \in {"path"} \cup (IF mode # <<>> THEN {"mode"} ELSE {})
                    \cup (IF autorename # <<>> THEN {"autorename"} ELSE {}) |->
        CASE k = "path" -> dst_path
          [] k = "mode" -> mode[1]
          [] k = "autorename" -> autorename[1]]

\* Fault: a read returns one byte less than asked for.
Read_short(size, pos, n) == [lo |-> pos, hi |-> Min(size, pos + n - 1)]

\* file.read(n) at position pos of a payload of `size` bytes.
Read(size, pos, n) == [lo |-> pos, hi |-> Min(size, pos + n)]

LenData(data) == data.hi - data.lo

\* asyncio.create_task(self._try_upload_file...(src, commit)): the coroutine
\* has not run yet.  kind is "file" (queue_file) or "obj" (queue_file_obj).
NewTask(kind, size, commit) ==
    [kind |-> kind, size |-> size, commit |-> commit, st |-> "new",
     fpos |-> 0, offset |-> 0, session_id |-> None, last |-> FALSE,
     endpoint |-> None, log |-> <<>>, statuses |-> <<>>, sid_given |-> None,
     error |-> None, raised |-> FALSE, result |-> FALSE]

\* Fault: the cursor names a fixed session, not the one the server opened.
Cursor_fixed(tk) == [offset |-> tk.offset, session_id |-> "sid1"]

\* "cursor": {"offset": offset, "session_id": session_id}
Cursor(tk) == [offset |-> tk.offset, session_id |-> tk.session_id]

\* Faults of the chunk test: a full chunk taken for the last one; a chunk
\* one byte short of full taken for a full one.
IsLast_le(data) == LenData(data) <= CHUNK_SIZE
IsLast_short(data) == LenData(data) < CHUNK_SIZE - 1

\* last = len(data) < Uploader.CHUNK_SIZE
IsLast(data) == LenData(data) < CHUNK_SIZE

\* Fault: append and finish taken for each other.
ChooseEndpoint_swap(session_id, last) ==
    IF session_id = None
    THEN (IF last THEN "upload" ELSE "upload_session/start")
    ELSE (IF last THEN "upload_session/append_v2" ELSE "upload_session/finish")

ChooseEndpoint(session_id, last) ==
    IF session_id = None
    THEN (IF last THEN "upload" ELSE "upload_session/start")
    ELSE (IF last THEN "upload_session/finish" ELSE "upload_session/append_v2")

\* The Dropbox-API-Arg header; {} is the empty function <<>>.
ChooseParams(tk, last) ==
    IF tk.session_id = None
    THEN (IF last THEN tk.commit ELSE <<>>)
    ELSE (IF last THEN [cursor |-> Cursor(tk), commit |-> tk.commit]
                  ELSE [cursor |-> Cursor(tk)])

\* Fault: the offset is never advanced.
AdvanceOffset_stuck(offset, data) == offset

\* offset += len(data)
AdvanceOffset(offset, data) == offset + LenData(data)

\* One pass of the loop of _upload_file_obj up to the point where the POST
\* is awaited: read a chunk, choose endpoint and arguments, advance offset.
IssueRequest(tk) ==
    LET data == Read(tk.size, tk.fpos, CHUNK_SIZE)
        last == IsLast(data)
        endpoint == ChooseEndpoint(tk.session_id, last)
    IN  [tk EXCEPT !.fpos = data.hi,
                   !.last = last,
                   !.endpoint = endpoint,
                   !.offset = AdvanceOffset(@, data),
                   !.log = Append(@, [url |-> CONTENT_API_URL \o <<"/2/files/", endpoint>>,
                                      params |-> ChooseParams(tk, last),
                                      data |-> data]),
                   !.st = "await"]

\* Fault: only the errors of the server are raised.
RaisesForStatus_5xx(status) == status >= 500

\* raise_for_status_body raises for these statuses.
RaisesForStatus(status) == status >= 400

\* A JSON response without the key the code reads (a KeyError).
Missing == "Missing"

\* _upload_file_obj returned: _try_upload_file(_obj) returns True.
Uploaded(tk) == [tk EXCEPT !.st = "done", !.result = TRUE]

\* "except Exception: ... return False" of _try_upload_file(_obj); error
\* tells what was raised ("open", "status" or "key").
Caught(tk, error) == [tk EXCEPT !.st = "done", !.error = error, !.result = FALSE]

\* The response to the awaited POST arrives.  status >= 400 raises out of
\* _upload_file_obj and _try_upload_file(_obj) returns False.  A start
\* response carries the session id (or lacks it: KeyError).  After the last chunk the loop ends,
\* otherwise it goes round and issues the next request.
OnResponse(tk, status, sid) ==
    LET seen == [tk EXCEPT !.statuses = Append(@, status)]
    IN  IF RaisesForStatus(status)
        THEN Caught(seen, "status")
        ELSE IF tk.endpoint = "upload_session/start" /\ sid = Missing
        THEN Caught(seen, "key")
        ELSE LET got == IF tk.endpoint = "upload_session/start"
                        THEN [seen EXCEPT !.session_id = sid, !.sid_given = sid]
                        ELSE seen
             IN  IF tk.last THEN Uploaded(got) ELSE IssueRequest(got)

\* Fault: the event loop does not run other tasks while a build is awaited.
Awaiting_nobuild ==
    \/ pc \in {"fetch", "links", "listing", "getindex"}
    \/ pc = "wait" /\ wi <= Len(pending) /\ tasks[pending[wi].task].st # "done"

\* main() is suspended at an await, so the event loop runs other tasks.
Awaiting ==
    \/ pc \in {"fetch", "links", "listing", "getindex"}
    \/ pc = "build" /\ builds[Len(builds)].st # "returned"
    \/ pc = "wait" /\ wi <= Len(pending) /\ tasks[pending[wi].task].st # "done"

Statuses == {200, 409}

\* The statuses of the responses to the requests of one upload: one that
\* is neither a success nor an error is among them.
UploadStatuses == Statuses \cup {304}

\* The task's coroutine runs for the first time.  open(path, "rb") of
\* _try_upload_file may raise; _try_upload_file_obj opens nothing.
TaskRun(t, opens) ==
    /\ Awaiting
    /\ tasks[t].st = "new"
    /\ opens \/ tasks[t].kind = "file"
    /\ tasks' = [tasks EXCEPT ![t] = IF opens THEN IssueRequest(@)
                                             ELSE Caught(@, "open")]
    /\ UNCHANGED <<argv, buildv, builds, pending, queued, waitv, resv, idxv,
                   pc, exit_code>>

\* Fault: a failed response ends every unfinished task of the Uploader.
Respond_cancel(tks, t, status, sid) ==
    [u \in DOMAIN tks |->
        IF u = t THEN OnResponse(tks[u], status, sid)
        ELSE IF RaisesForStatus(status) /\ tks[u].st # "done"
             THEN Caught(tks[u], "cancelled") ELSE tks[u]]

\* Only the task whose response arrived runs.
Respond(tks, t, status, sid) == [tks EXCEPT ![t] = OnResponse(@, status, sid)]

TaskResponse(t, status, sid) ==
    /\ Awaiting
    /\ tasks[t].st = "await"
    /\ tasks' = Respond(tasks, t, status, sid)
    /\ UNCHANGED <<argv, buildv, builds, pending, queued, waitv, resv, idxv,
                   pc, exit_code>>

-----------------------------------------------------------------------------
(* Sequences and the insertion-ordered dict *)

Range(s) == {s[i] : i \in DOMAIN s}

StartsWith(s, prefix) ==
    Len(s) >= Len(prefix) /\ SubSeq(s, 1, Len(prefix)) = prefix

\* Fault: a key already present is added again.
DictSet_dup(d, key) == Append(d, key)

\* d[key] = None on a dict kept as the list of its keys: a key already
\* present keeps its place.
DictSet(d, key) == IF key \in Range(d) THEN d ELSE Append(d, key)

RECURSIVE FromKeysFrom(_, _, _)
FromKeysFrom(d, keys, i) ==
    IF i > Len(keys) THEN d ELSE FromKeysFrom(DictSet(d, keys[i]), keys, i + 1)

\* dict.fromkeys(keys)
FromKeys(keys) == FromKeysFrom(<<>>, keys, 1)

-----------------------------------------------------------------------------
(* Release Catalog Resolver *)

Monikers == {"mainline", "stable", "longterm"}

\* get_kernel_org_releases: the list comprehension over releases.json.
KernelOrgReleases(releases) ==
    LET Keep(release) == /\ release.moniker \in Monikers
                         /\ ~StartsWith(release.version, <<"3", ".">>)
        kept == SelectSeq(releases, Keep)
    IN  [i \in 1..Len(kept) |-> <<"v">> \o kept[i].version]

\* for kernel in kernel_org: if kernel not in available: to_build[kernel] = None
RECURSIVE AddMissing(_, _, _, _)
AddMissing(d, kernel_org, avail, i) ==
    IF i > Len(kernel_org) THEN d
    ELSE AddMissing(IF kernel_org[i] \notin avail THEN DictSet(d, kernel_org[i]) ELSE d,
                    kernel_org, avail, i + 1)

-----------------------------------------------------------------------------
(* Release Catalog Resolver: get_available_kernel_releases *)

\* A file or folder name of the listing is a sequence of tokens: a run of
\* digits is one token, and so are "vmlinux-", ".", "-rc" and ".zst".
DigitStrings == {"0", "00", "2", "3", "4", "5", "8", "10"}

\* re.fullmatch(r"vmlinux-(\d+)\.(\d+)\.(\d+)(-rc\d+)?\.zst", name): <<>> when
\* the name does not match, else the groups of the match.
Fullmatch(name) ==
    LET n == Len(name)
        head == /\ n >= 7
                /\ name[1] = "vmlinux-"
                /\ name[2] \in DigitStrings /\ name[3] = "."
                /\ name[4] \in DigitStrings /\ name[5] = "."
                /\ name[6] \in DigitStrings
        groups(rc) == [g1 |-> name[2], g2 |-> name[4], g3 |-> name[6], g4 |-> rc]
    IN  IF head /\ n = 7 /\ name[7] = ".zst" THEN <<groups(<<>>)>>
        ELSE IF /\ head /\ n = 9
                /\ name[7] = "-rc" /\ name[8] \in DigitStrings /\ name[9] = ".zst"
             THEN <<groups(<<name[7], name[8]>>)>>
             ELSE <<>>

\* Fault: the patch number is kept whatever it is.
PatchSuffix_kept(g3) == <<".", g3>>

\* if match.group(3) != "0": version += "." + match.group(3)
PatchSuffix(g3) == IF g3 # "0" THEN <<".", g3>> ELSE <<>>

\* Lines 126-131: the version a match stands for.
Version(match) ==
    <<"v", match.g1, ".", match.g2>> \o PatchSuffix(match.g3) \o match.g4

\* for entry in obj["entries"]: the set available after the loop has run
\* over the entries from the i-th on.
RECURSIVE AddEntries(_, _, _)
AddEntries(avail, entries, i) ==
    IF i > Len(entries) THEN avail
    ELSE LET entry == entries[i]
             match == Fullmatch(entry.name)
         IN  AddEntries(IF entry.tag # "file" \/ match = <<>> THEN avail
                        ELSE avail \cup {Version(match[1])},
                        entries, i + 1)

\* The first request of the function, and the one that follows a page.
ListFolderRequest ==
    [url |-> "/2/files/list_folder", params |-> [path |-> "/Public/x86_64"]]
ContinueRequest(cursor) ==
    [url |-> "/2/files/list_folder/continue", params |-> [cursor |-> cursor]]

\* The page a request asks for.
PageOf(req) == IF req = ListFolderRequest THEN 1 ELSE req.params.cursor

\* The body of a 200 response to req: a page of the folder, whether pages
\* follow it, and the cursor to ask for the next one with.
ListFolderResult(pages, req) ==
    [entries |-> pages[PageOf(req)],
     has_more |-> PageOf(req) < Len(pages),
     cursor |-> PageOf(req) + 1]

\* What the server answers: 200; 409 with "path/not_found/..."; 409 with
\* another error summary; or another status >= 400.
ListResponses == {"ok", "not_found", "conflict", "error"}

\* One turn of the while loop: the response to the request arrives.
ListFolder(response) ==
    /\ pc = "fetch"
    /\ lpc = "request"
    /\ LET obj == ListFolderResult(published, lreq)
           avail == IF response = "ok" THEN AddEntries(available, obj.entries, 1)
                    ELSE available
       IN  /\ available' = avail
           /\ llog' = Append(llog, [req |-> lreq, response |-> response,
                                    available |-> avail])
           /\ CASE response = "not_found" -> lpc' = "returned" /\ UNCHANGED lreq
                [] response \in {"conflict", "error"} ->
                        lpc' = "raised" /\ UNCHANGED lreq
                [] OTHER ->
                        IF ~obj.has_more
                        THEN lpc' = "returned" /\ UNCHANGED lreq
                        ELSE lreq' = ContinueRequest(obj.cursor) /\ UNCHANGED lpc
    /\ UNCHANGED <<args, in_git, manifest, published, urlv, buildv, builds, upv,
                   waitv, resv, idxv, pc, exit_code>>

-----------------------------------------------------------------------------
(* The environment of a run *)

V510 == <<"v", "5", ".", "10">>
V543 == <<"v", "5", ".", "4", ".", "3">>
\* A commit id; it is the commit the tag v5.10 points to.
DEADBEEF == <<"deadbeef">>

\* What "make -s kernelrelease" prints for a build of the commit.
KernelRelease(commit) ==
    IF commit \in {V510, DEADBEEF} THEN <<"5", ".", "10", ".", "0">> ELSE Tail(commit)

\* What "make -s image_name" prints.
ImageName(commit) == <<"arch/x86/boot/bzImage">>

\* Length of the file at src_path when the upload task opens it.
FileSize(src_path) ==
    IF src_path[Len(src_path)] = "vmlinux.zst" THEN CHUNK_SIZE + 1 ELSE CHUNK_SIZE - 1

\* os.path.join(a, b)
PathJoin(a, b) == a \o <<"/">> \o b

-----------------------------------------------------------------------------
(* Uploader: queue_file, queue_file_obj *)

\* Fault: the batch keyed by destination, a later task replacing an earlier
\* one with the same path.
PendingAppend_keyed(pend, path, task) ==
    IF \E i \in DOMAIN pend : pend[i].path = path
    THEN [i \in DOMAIN pend |-> IF pend[i].path = path
                                THEN [path |-> path, task |-> task] ELSE pend[i]]
    ELSE Append(pend, [path |-> path, task |-> task])

\* self._pending.append((commit["path"], task))
PendingAppend(pend, path, task) == Append(pend, [path |-> path, task |-> task])

\* U is the Uploader: its _pending list and the tasks it created.
Enqueue(U, kind, size, commit) ==
    [pending |-> PendingAppend(U.pending, commit["path"], Len(U.tasks) + 1),
     tasks |-> Append(U.tasks, NewTask(kind, size, commit)),
     queued |-> Append(U.queued, commit["path"])]

QueueFile(U, src_path, dst_path, mode, autorename) ==
    Enqueue(U, "file", FileSize(src_path), MakeCommit(dst_path, mode, autorename))

QueueFileObj(U, size, dst_path, mode, autorename) ==
    Enqueue(U, "obj", size, MakeCommit(dst_path, mode, autorename))

Uploader == [pending |-> pending, tasks |-> tasks, queued |-> queued]

SetUploader(U) ==
    /\ pending' = U.pending
    /\ tasks' = U.tasks
    /\ queued' = U.queued

-----------------------------------------------------------------------------
(* main *)

Running == <<>>

\* Fault: the process always ends with status 0.
Exit_zero(code) == pc' = "exited" /\ exit_code' = <<0>>

\* sys.exit(code), or main() returning (code 0).
Exit(code) == pc' = "exited" /\ exit_code' = <<code>>

\* Lines 573-610 up to the await of asyncio.gather.
Start ==
    /\ pc = "start"
    /\ IF (args.build # <<>> \/ args.build_kernel_org) /\ ~in_git
       THEN Exit(1) /\ UNCHANGED to_build
       ELSE /\ to_build' = FromKeys(args.build)
            /\ pc' = IF args.build_kernel_org THEN "fetch" ELSE "queue_files"
            /\ UNCHANGED exit_code
    /\ UNCHANGED <<argv, bi, builds_succeeded, builds_failed, dirs, builds, upv,
                   waitv, resv, idxv>>

\* asyncio.gather(get_kernel_org_releases, get_available_kernel_releases)
\* returns, or raises (ok = FALSE) and main exits.
Fetched(ok) ==
    /\ pc = "fetch"
    /\ IF ok
       THEN /\ to_build' = AddMissing(to_build, KernelOrgReleases(manifest), available, 1)
            /\ pc' = "queue_files"
            /\ UNCHANGED exit_code
       ELSE Exit(1) /\ UNCHANGED to_build
    /\ UNCHANGED <<argv, bi, builds_succeeded, builds_failed, dirs, builds, upv,
                   waitv, resv, idxv>>

RECURSIVE QueueUploadFiles(_, _, _)
QueueUploadFiles(U, files, i) ==
    IF i > Len(files) THEN U
    ELSE QueueUploadFiles(QueueFile(U, files[i][1], files[i][2], <<>>, <<FALSE>>),
                          files, i + 1)

\* for src_path, dst_path in args.upload_files or (): uploader.queue_file(...)
QueueFiles ==
    /\ pc = "queue_files"
    /\ SetUploader(QueueUploadFiles(Uploader, args.upload_files, 1))
    /\ bi' = 1
    /\ pc' = "loop"
    /\ UNCHANGED <<argv, to_build, builds_succeeded, builds_failed, dirs, builds,
                   waitv, resv, idxv, exit_code>>

-----------------------------------------------------------------------------
(* Kernel Builder: try_build_kernel, build_kernel *)

\* build_dir = "build-" + commit
BuildDir(commit) == <<"build-">> \o commit

\* The coroutines handed to asyncio.gather: not started, or each at its
\* first subprocess.
NoGather == [post_process |-> "idle", kernelrelease |-> "idle", image_name |-> "idle"]
GatherStart == [post_process |-> "objcopy", kernelrelease |-> "make", image_name |-> "make"]

\* try_build_kernel(commit) is called: "git rev-parse --verify" runs.
\* ran is the history of the build: the subprocesses that have exited, each
\* with its exit status; mkdir is that of its os.mkdir calls.
NewBuild(commit) ==
    [commit |-> commit, st |-> "revparse", kids |-> NoGather, result |-> <<>>,
     ran |-> {}, mkdir |-> <<>>]

\* A subprocess has exited with rc.
Ran(b, cmd, rc) == [b EXCEPT !.ran = @ \cup {[cmd |-> cmd, rc |-> rc]}]

\* try_build_kernel returns None (result <<>>).
ReturnNone(b) == [b EXCEPT !.st = "returned", !.result = <<>>]

\* try_build_kernel returns (build_dir, release, image_name).
ReturnBuilt(b) ==
    [b EXCEPT !.st = "returned",
              !.result = <<BuildDir(b.commit), KernelRelease(b.commit), ImageName(b.commit)>>]

\* Fault: every commit is taken for a valid revision.
Resolves_always(rc) == TRUE

\* (await proc.wait()) != 0 of line 258 is false.
Resolves(rc) == rc = 0

\* Fault: an existing directory is used again.
DirExists_never(ds, d) == FALSE

\* os.mkdir(build_dir) raises FileExistsError.
DirExists(ds, d) == d \in DOMAIN ds

\* Fault: the exit status of a subprocess is not looked at.
NonZero_ignored(rc) == FALSE

\* returncode != 0 of check_call and check_output.
NonZero(rc) == rc # 0

\* The files of directory d, with those of the set files written into it.
Written(ds, d, files) ==
    [x \in DOMAIN ds \cup {d} |->
        IF x = d THEN (IF d \in DOMAIN ds THEN ds[d] ELSE {}) \cup files ELSE ds[x]]

\* "git rev-parse --verify" exits with rc; then os.mkdir, open of the log
\* and the start of "git checkout".
RevParse(b, rc) ==
    /\ Awaiting
    /\ builds[b].st = "revparse"
    /\ LET build_dir == BuildDir(builds[b].commit)
           ran == Ran(builds[b], "git rev-parse", rc)
       IN  IF ~Resolves(rc)
           THEN builds' = [builds EXCEPT ![b] = ReturnNone(ran)] /\ UNCHANGED dirs
           ELSE IF DirExists(dirs, build_dir)
                THEN /\ builds' = [builds EXCEPT ![b] =
                            ReturnNone([ran EXCEPT !.mkdir = Append(@, "FileExistsError")])]
                     /\ UNCHANGED dirs
                ELSE /\ dirs' = Written(dirs, build_dir, {"build.log"})
                     /\ builds' = [builds EXCEPT ![b] =
                            [ran EXCEPT !.st = "checkout", !.mkdir = Append(@, "created")]]
    /\ UNCHANGED <<argv, to_build, bi, builds_succeeded, builds_failed, upv,
                   waitv, resv, idxv, pc, exit_code>>

\* "git checkout" exits; the config is copied and "make" starts.
Checkout(b, rc) ==
    /\ Awaiting
    /\ builds[b].st = "checkout"
    /\ LET ran == Ran(builds[b], "git checkout", rc)
       IN  IF NonZero(rc)
           THEN builds' = [builds EXCEPT ![b] = ReturnNone(ran)] /\ UNCHANGED dirs
           ELSE /\ builds' = [builds EXCEPT ![b] = [ran EXCEPT !.st = "make"]]
                /\ dirs' = Written(dirs, BuildDir(builds[b].commit), {".config"})
    /\ UNCHANGED <<argv, to_build, bi, builds_succeeded, builds_failed, upv,
                   waitv, resv, idxv, pc, exit_code>>

\* "make olddefconfig all" exits; asyncio.gather starts its three coroutines.
Make(b, rc) ==
    /\ Awaiting
    /\ builds[b].st = "make"
    /\ LET ran == Ran(builds[b], "make all", rc)
       IN  IF NonZero(rc)
           THEN builds' = [builds EXCEPT ![b] = ReturnNone(ran)] /\ UNCHANGED dirs
           ELSE /\ builds' = [builds EXCEPT ![b] =
                                [ran EXCEPT !.st = "gather", !.kids = GatherStart]]
                /\ dirs' = Written(dirs, BuildDir(builds[b].commit), {"vmlinux"})
    /\ UNCHANGED <<argv, to_build, bi, builds_succeeded, builds_failed, upv,
                   waitv, resv, idxv, pc, exit_code>>

\* The command a gathered coroutine is running.
KidCmd(k, at) ==
    IF k = "post_process" THEN at
    ELSE IF k = "kernelrelease" THEN "make kernelrelease" ELSE "make image_name"

\* A subprocess of one of the gathered coroutines exits with rc: check_call
\* and check_output raise when rc # 0; post_process_vmlinux goes on from
\* objcopy to zstd.
KidExit(b, k, rc) ==
    /\ Awaiting
    /\ builds[b].kids[k] \in {"objcopy", "zstd", "make"}
    /\ LET at == builds[b].kids[k]
           ran == Ran(builds[b], KidCmd(k, at), rc)
       IN  /\ builds' = [builds EXCEPT ![b] =
                    [ran EXCEPT !.kids[k] = IF NonZero(rc) THEN "raised"
                                            ELSE IF at = "objcopy" THEN "zstd"
                                            ELSE "returned"]]
           /\ dirs' = IF rc = 0 /\ k = "post_process"
                      THEN Written(dirs, BuildDir(builds[b].commit),
                                   {IF at = "objcopy" THEN "vmlinux.norel" ELSE "vmlinux.zst"})
                      ELSE dirs
    /\ UNCHANGED <<argv, to_build, bi, builds_succeeded, builds_failed, upv,
                   waitv, resv, idxv, pc, exit_code>>

\* asyncio.gather raises the first exception of its coroutines, whatever
\* the others are doing; try_build_kernel logs it and returns None.
GatherRaise(b) ==
    /\ Awaiting
    /\ builds[b].st = "gather"
    /\ \E k \in DOMAIN builds[b].kids : builds[b].kids[k] = "raised"
    /\ builds' = [builds EXCEPT ![b] = ReturnNone(@)]
    /\ UNCHANGED <<argv, buildv, upv, waitv, resv, idxv, pc, exit_code>>

\* asyncio.gather returns once all its coroutines have returned.
GatherReturn(b) ==
    /\ Awaiting
    /\ builds[b].st = "gather"
    /\ \A k \in DOMAIN builds[b].kids : builds[b].kids[k] = "returned"
    /\ builds' = [builds EXCEPT ![b] = ReturnBuilt(@)]
    /\ UNCHANGED <<argv, buildv, upv, waitv, resv, idxv, pc, exit_code>>

-----------------------------------------------------------------------------
(* main: the build loop *)

\* The for loop of main: the next try_build_kernel is called and awaited,
\* or the loop ends.
Loop ==
    /\ pc = "loop"
    /\ IF bi <= Len(to_build)
       THEN builds' = Append(builds, NewBuild(to_build[bi])) /\ pc' = "build"
       ELSE pc' = "after_loop" /\ UNCHANGED builds
    /\ UNCHANGED <<argv, buildv, upv, waitv, resv, idxv, exit_code>>

VmlinuxDst(release) == <<"/Public/x86_64/vmlinux-">> \o release \o <<".zst">>
VmlinuzDst(release) == <<"/Public/x86_64/vmlinuz-">> \o release

\* The uploads main queues for a finished build when args.upload is set.
QueueBuild(U, build_dir, release, image_name) ==
    QueueFile(QueueFile(U, PathJoin(build_dir, <<"vmlinux.zst">>),
                        VmlinuxDst(release), <<>>, <<FALSE>>),
              PathJoin(build_dir, image_name), VmlinuzDst(release), <<>>, <<FALSE>>)

\* Fault: the build started but not awaited.
HasReturned_always(b) == TRUE

\* "result = await try_build_kernel(kernel)" resumes main once the
\* coroutine has returned.
HasReturned(b) == b.st = "returned"

\* Lines 621-637: the result of the awaited build is recorded and, with
\* args.upload, its two artifacts are queued.
BuildDone ==
    /\ pc = "build"
    /\ HasReturned(builds[Len(builds)])
    /\ LET kernel == to_build[bi]
           result == builds[Len(builds)].result
       IN  IF result = <<>>
           THEN /\ builds_failed' = Append(builds_failed, kernel)
                /\ UNCHANGED <<builds_succeeded, upv>>
           ELSE /\ builds_succeeded' = Append(builds_succeeded, kernel)
                /\ IF args.upload
                   THEN SetUploader(QueueBuild(Uploader, result[1], result[2], result[3]))
                   ELSE UNCHANGED upv
                /\ UNCHANGED builds_failed
    /\ bi' = bi + 1
    /\ pc' = "loop"
    /\ UNCHANGED <<argv, to_build, dirs, builds, waitv, resv, idxv, exit_code>>

-----------------------------------------------------------------------------
(* Uploader.wait *)

\* wait() is called: succeeded = [], failed = [], the for loop starts.
WaitCall(caller) ==
    /\ wi' = 1
    /\ wsucc' = <<>>
    /\ wfail' = <<>>
    /\ wret' = caller
    /\ pc' = "wait"
    /\ UNCHANGED wcalls

\* "await task" returns once the task is done.
TaskIsDone(t) == tasks[t].st = "done"

\* if args.upload or args.upload_files: ... await uploader.wait()
AfterLoop ==
    /\ pc = "after_loop"
    /\ IF args.upload \/ args.upload_files # <<>>
       THEN WaitCall("main")
       ELSE pc' = "report" /\ UNCHANGED waitv
    /\ UNCHANGED <<argv, buildv, builds, upv, resv, idxv, exit_code>>

\* An exception nothing catches ends the process with a traceback.
Crash == pc' = "crashed" /\ exit_code' = <<1>>

\* One pass of the for loop of wait over self._pending.  "await task" of a
\* task that ended with an exception raises it: out of main, or into the
\* "except Exception" of update_index.
WaitStep ==
    /\ pc = "wait"
    /\ wi <= Len(pending)
    /\ TaskIsDone(pending[wi].task)
    /\ IF tasks[pending[wi].task].raised
       THEN /\ IF wret = "main" THEN Crash ELSE Exit(1)
            /\ UNCHANGED <<wi, wsucc, wfail>>
       ELSE /\ IF tasks[pending[wi].task].result
               THEN wsucc' = Append(wsucc, pending[wi].path) /\ UNCHANGED wfail
               ELSE wfail' = Append(wfail, pending[wi].path) /\ UNCHANGED wsucc
            /\ wi' = wi + 1
            /\ UNCHANGED <<pc, exit_code>>
    /\ UNCHANGED <<argv, buildv, builds, upv, resv, idxv, wret, wcalls>>

\* Fault: update_index returns True whatever wait reported.
IndexResult_true(failed) == TRUE

\* Lines 523-526: return False if failed, else True.
IndexResult(failed) == failed = <<>>

\* Fault: the batch is not cleared.
PendingClear_keep(pend) == pend

\* self._pending.clear()
PendingClear(pend) == <<>>

\* The for loop of wait is over: the batch is cleared and wait returns to
\* main (lines 640-642) or to update_index (lines 522-526), whose result
\* ends main.
WaitReturn ==
    /\ pc = "wait"
    /\ wi > Len(pending)
    /\ wcalls' = Append(wcalls,
            [batch |-> pending, succeeded |-> wsucc, failed |-> wfail,
             left |-> PendingClear(pending),
             unfinished |-> {i \in DOMAIN pending : tasks[pending[i].task].st # "done"}])
    /\ pending' = PendingClear(pending)
    /\ queued' = <<>>
    /\ IF wret = "main"
       THEN /\ uploads_succeeded' = uploads_succeeded \o wsucc
            /\ uploads_failed' = uploads_failed \o wfail
            /\ pc' = "report"
            /\ UNCHANGED <<exit_code, iret>>
       ELSE /\ iret' = <<IndexResult(wfail)>>
            /\ Exit(IF IndexResult(wfail) THEN 0 ELSE 1)
            /\ UNCHANGED resv
    /\ UNCHANGED <<argv, buildv, builds, tasks, remote, walkv, bodyv, ilog,
                   wi, wsucc, wfail, wret>>

\* Fault: update_index is called whatever failed.
Report_index ==
    /\ pc = "report"
    /\ IF args.index
       THEN pc' = "links" /\ UNCHANGED exit_code
       ELSE Exit(IF builds_failed # <<>> \/ uploads_failed # <<>> THEN 1 ELSE 0)
    /\ UNCHANGED <<argv, buildv, builds, upv, waitv, resv, idxv>>

\* Lines 644-658: the summary, the exit status, the call of update_index.
Report ==
    /\ pc = "report"
    /\ IF builds_failed # <<>> \/ uploads_failed # <<>>
       THEN Exit(1)
       ELSE IF args.index
            THEN pc' = "links" /\ UNCHANGED exit_code
            ELSE Exit(0)
    /\ UNCHANGED <<argv, buildv, builds, upv, waitv, resv, idxv>>

-----------------------------------------------------------------------------
(* Text: str comparison, list.sort, str.join, str.splitlines *)

INDEX == <<"I", "N", "D", "E", "X">>

\* ord(c) for the characters of file names and of index lines.  The tokens
\* of a link are given one code: the names within a folder are distinct,
\* so two of its lines differ before their links start.
Code(c) ==
    CASE c = "\t" -> 9
      [] c = "\n" -> 10
      [] c = "/" -> 47
      [] c = "D" -> 68
      [] c = "E" -> 69
      [] c = "I" -> 73
      [] c = "N" -> 78
      [] c = "X" -> 88
      [] c = "Z" -> 90
      [] c = "a" -> 97
      [] c = "d" -> 100
      [] c = "e" -> 101
      [] OTHER -> 128

\* a < b for two str.
RECURSIVE StrLess(_, _)
StrLess(a, b) ==
    IF b = <<>> THEN FALSE
    ELSE IF a = <<>> THEN TRUE
    ELSE IF Code(a[1]) # Code(b[1]) THEN Code(a[1]) < Code(b[1])
    ELSE StrLess(Tail(a), Tail(b))

\* x put into the sorted list s behind every element that is not greater.
Insert(s, x) ==
    LET k == Cardinality({i \in DOMAIN s : ~StrLess(x, s[i])})
    IN  SubSeq(s, 1, k) \o <<x>> \o SubSeq(s, k + 1, Len(s))

\* lines.sort(): ascending and stable.
RECURSIVE SortList(_)
SortList(l) ==
    IF l = <<>> THEN <<>>
    ELSE Insert(SortList(SubSeq(l, 1, Len(l) - 1)), l[Len(l)])

\* "".join(lines)
RECURSIVE JoinLines(_)
JoinLines(ls) == IF ls = <<>> THEN <<>> ELSE ls[1] \o JoinLines(Tail(ls))

\* text.splitlines(keepends=True) from position i on, cur being the line
\* read so far.  "\n" is the only line boundary among the characters here.
RECURSIVE SplitFrom(_, _, _)
SplitFrom(text, i, cur) ==
    IF i > Len(text) THEN (IF cur = <<>> THEN <<>> ELSE <<cur>>)
    ELSE IF text[i] = "\n"
         THEN <<Append(cur, "\n")>> \o SplitFrom(text, i + 1, <<>>)
         ELSE SplitFrom(text, i + 1, Append(cur, text[i]))

SplitLines(text) == SplitFrom(text, 1, <<>>)

\* len(text.encode()): every token stands for its characters.
RECURSIVE EncodedLen(_)
EncodedLen(text) ==
    IF text = <<>> THEN 0 ELSE Len(text[1]) + EncodedLen(Tail(text))

-----------------------------------------------------------------------------
(* make_download_url *)

\* s.find(x) + 1: the first position of x in s, 0 when there is none.
IndexOf(s, x) ==
    IF \E i \in DOMAIN s : s[i] = x
    THEN CHOOSE i \in DOMAIN s : s[i] = x /\ \A j \in 1..(i - 1) : s[j] # x
    ELSE 0

\* s.split(sep)
RECURSIVE SplitOn(_, _)
SplitOn(s, sep) ==
    LET i == IndexOf(s, sep)
    IN  IF i = 0 THEN <<s>>
        ELSE <<SubSeq(s, 1, i - 1)>> \o SplitOn(SubSeq(s, i + 1, Len(s)), sep)

\* urllib.parse.urlsplit: the fragment is cut off at the first "#", then
\* the query at the first "?".
UrlSplit(url) ==
    LET h == IndexOf(url, "#")
        nofrag == IF h = 0 THEN url ELSE SubSeq(url, 1, h - 1)
        q == IndexOf(nofrag, "?")
    IN  [base |-> IF q = 0 THEN nofrag ELSE SubSeq(nofrag, 1, q - 1),
         query |-> IF q = 0 THEN <<>> ELSE SubSeq(nofrag, q + 1, Len(nofrag)),
         fragment |-> IF h = 0 THEN <<>> ELSE SubSeq(url, h + 1, Len(url))]

\* urllib.parse.unquote(s.replace("+", " ")), token by token: "+", "%20",
\* "%3D" and "%6C" are the escapes that occur.
Unquote(s) ==
    [i \in DOMAIN s |-> CASE s[i] \in {"+", "%20"} -> " "
                          [] s[i] = "%3D" -> "="
                          [] s[i] = "d%6C" -> "dl"
                          [] OTHER -> s[i]]

\* urllib.parse.quote_plus(s), token by token.
QuotePlus(s) ==
    [i \in DOMAIN s |-> CASE s[i] = " " -> "+"
                          [] s[i] = "=" -> "%3D"
                          [] OTHER -> s[i]]

\* A field without "=" (i = 0) or with nothing after it: len(nv) != 2, or
\* len(nv[1]) == 0.
IsBlank(field, i) == i = 0 \/ i = Len(field)

\* One field of a query string as parse_qsl reads it: <<(name, value)>>, or
\* <<>> for an empty field, a field without "=" and a field with a blank
\* value, which parse_qsl leaves out.
ParseField(field) ==
    LET i == IndexOf(field, "=")
    IN  IF field = <<>> \/ IsBlank(field, i) THEN <<>>
        ELSE <<<<Unquote(SubSeq(field, 1, i - 1)),
                 Unquote(SubSeq(field, i + 1, Len(field)))>>>>

RECURSIVE ParseFields(_)
ParseFields(fields) ==
    IF fields = <<>> THEN <<>>
    ELSE ParseField(fields[1]) \o ParseFields(Tail(fields))

\* urllib.parse.parse_qsl(qs)
ParseQsl(qs) == IF qs = <<>> THEN <<>> ELSE ParseFields(SplitOn(qs, "&"))

\* urllib.parse.urlencode(query)
RECURSIVE UrlEncode(_)
UrlEncode(query) ==
    IF query = <<>> THEN <<>>
    ELSE QuotePlus(query[1][1]) \o <<"=">> \o QuotePlus(query[1][2])
         \o (IF Len(query) > 1 THEN <<"&">> \o UrlEncode(Tail(query)) ELSE <<>>)

\* urllib.parse.urlunsplit
UrlUnsplit(parsed) ==
    parsed.base
    \o (IF parsed.query # <<>> THEN <<"?">> \o parsed.query ELSE <<>>)
    \o (IF parsed.fragment # <<>> THEN <<"#">> \o parsed.fragment ELSE <<>>)

make_download_url(url) ==
    LET parsed == UrlSplit(url)
        NotDl(nv) == nv[1] # <<"dl">>
        query == Append(SelectSeq(ParseQsl(parsed.query), NotDl), <<<<"dl">>, <<"1">>>>)
    IN  UrlUnsplit([parsed EXCEPT !.query = UrlEncode(query)])

-----------------------------------------------------------------------------
(* Remote Index Synchronizer: update_index, walk_shared_folder,            *)
(* list_shared_folder                                                      *)

\* The folder a shared link leads to, and the file a download link leads
\* to, are known to the server by the first token of the link.
LinkKey(url) == url[1]

\* Fault: any folder link is taken, whatever its visibility.
IsPublicFolder_any(link) == link.tag = "folder"

\* Lines 485-492: a folder link whose resolved visibility is "public"; a
\* link without that field is passed over (KeyError).
IsPublicFolder(link) ==
    /\ link.tag = "folder"
    /\ link.visibility # Missing
    /\ link.visibility = "public"

\* The for ... else of lines 484-494: the position of the link the loop
\* breaks at, 0 when it runs to its end.
FindLink(links) ==
    IF \E i \in DOMAIN links : IsPublicFolder(links[i])
    THEN CHOOSE i \in DOMAIN links :
            IsPublicFolder(links[i]) /\ \A j \in 1..(i - 1) : ~IsPublicFolder(links[j])
    ELSE 0

\* The (filename, href) pairs of the entries of a page that are folders
\* (is_dir = TRUE) or files.
PageEntries(page, is_dir) ==
    LET Is(entry) == entry.is_dir = is_dir
        sel == SelectSeq(page, Is)
    IN  [i \in DOMAIN sel |-> <<sel[i].filename, sel[i].href>>]

\* name + "\t" + href + "\n"
FileLine(name, href) == name \o <<"\t">> \o href \o <<"\n">>

\* name + "/\t" + href + "\n"
DirLine(name, href) == name \o <<"/", "\t">> \o href \o <<"\n">>

DirLines(subdirs) ==
    [i \in DOMAIN subdirs |-> DirLine(subdirs[i][1], subdirs[i][2])]

\* The for loop over files (lines 500-505) from position i on: it runs to
\* the end (at > Len(files)) or to the GET of the file named INDEX.
RECURSIVE ScanFiles(_, _, _)
ScanFiles(files, i, ls) ==
    IF i > Len(files) THEN [lines |-> ls, at |-> i]
    ELSE LET more == Append(ls, FileLine(files[i][1], make_download_url(files[i][2])))
         IN  IF files[i][1] = INDEX THEN [lines |-> more, at |-> i]
             ELSE ScanFiles(files, i + 1, more)

\* index_path = (path + "/" if path else "") + "INDEX"
IndexPath(path) == (IF path # <<>> THEN path \o <<"/">> ELSE <<>>) \o INDEX

\* Fault: the subfolders are pushed under their bare names.
Pushes_flat(path, subdirs) ==
    [i \in DOMAIN subdirs |-> <<subdirs[i][1], subdirs[i][2]>>]

\* stack.extend((path + filename, href) for filename, href in dirs), after
\* path += "/" for a path that is not empty.
Pushes(path, subdirs) ==
    [i \in DOMAIN subdirs |->
        <<(IF path # <<>> THEN path \o <<"/">> ELSE <<>>) \o subdirs[i][1], subdirs[i][2]>>]

\* The while loop of walk_shared_folder: stack.pop() and the first request
\* of list_shared_folder; with an empty stack the walk is over and
\* update_index calls uploader.wait().
WalkNext(stk, files, subdirs) ==
    IF stk = <<>>
    THEN /\ WaitCall("index")
         /\ stack' = stk
         /\ ifiles' = files
         /\ idirs' = subdirs
         /\ UNCHANGED <<ipath, iurl, ipage>>
    ELSE /\ ipath' = stk[Len(stk)][1]
         /\ iurl' = stk[Len(stk)][2]
         /\ stack' = SubSeq(stk, 1, Len(stk) - 1)
         /\ ipage' = 1
         /\ ifiles' = <<>>
         /\ idirs' = <<>>
         /\ pc' = "listing"
         /\ UNCHANGED waitv

\* Fault: the INDEX is uploaded whether it changed or not.
UpToDate_never(new_lines, previous) == FALSE

\* lines == old_lines
UpToDate(new_lines, previous) == new_lines = previous

\* Lines 498-521 for the folder walk_shared_folder yielded, from position i
\* of the for loop over files on; then the generator pushes the subfolders
\* and goes on.
DirBody(files, subdirs, i, ls, old, log) ==
    LET scan == ScanFiles(files, i, ls) IN
    IF scan.at <= Len(files)
    THEN /\ pc' = "getindex"
         /\ ifile' = scan.at
         /\ lines' = scan.lines
         /\ old_lines' = old
         /\ ifiles' = files
         /\ idirs' = subdirs
         /\ ilog' = log
         /\ UNCHANGED <<stack, ipath, iurl, ipage, upv, waitv>>
    ELSE LET sorted == SortList(scan.lines \o DirLines(subdirs)) IN
         /\ ifile' = scan.at
         /\ lines' = sorted
         /\ old_lines' = old
         /\ IF UpToDate(sorted, old)
            THEN UNCHANGED upv
            ELSE SetUploader(QueueFileObj(Uploader, EncodedLen(JoinLines(sorted)),
                        <<"/Public/">> \o IndexPath(ipath), <<"overwrite">>, <<>>))
         /\ ilog' = Append(log, [op |-> "dir", path |-> ipath, files |-> files,
                                 dirs |-> subdirs, lines |-> sorted,
                                 old_lines |-> old,
                                 task |-> IF UpToDate(sorted, old) THEN 0
                                          ELSE Len(tasks) + 1])
         /\ WalkNext(stack \o Pushes(ipath, subdirs), files, subdirs)

\* Fault: the exception is caught where the folder is processed and the
\* walk goes on with the next folder of the stack.
IndexFailed_skip ==
    /\ WalkNext(stack, ifiles, idirs)
    /\ UNCHANGED <<bodyv, upv, exit_code, iret>>

\* update_index caught an exception, logged it and returned False; main
\* calls sys.exit(1).
IndexFailed ==
    /\ Exit(1)
    /\ iret' = <<FALSE>>
    /\ UNCHANGED <<walkv, bodyv, upv, waitv>>

\* The response to list_shared_links (lines 478-497).
Links(status) ==
    /\ pc = "links"
    /\ LET log == Append(ilog, [op |-> "links", status |-> status])
           k == FindLink(remote.links)
       IN  /\ ilog' = log
           /\ IF RaisesForStatus(status) \/ k = 0
              THEN IndexFailed
              ELSE /\ WalkNext(<<<<<<>>, remote.links[k].url>>>>, ifiles, idirs)
                   /\ UNCHANGED <<bodyv, upv, exit_code, iret>>
    /\ UNCHANGED <<argv, buildv, builds, resv, remote>>

\* The response to the request for page ipage of the folder: the scraped
\* GET for the first page, the POST for the others.  After the last page
\* walk_shared_folder yields to update_index.
ListPage(status) ==
    /\ pc = "listing"
    /\ LET pages == remote.folders[LinkKey(iurl)]
           log == Append(ilog, [op |-> "list", path |-> ipath, page |-> ipage,
                                status |-> status])
           files == ifiles \o PageEntries(pages[ipage], FALSE)
           subdirs == idirs \o PageEntries(pages[ipage], TRUE)
       IN  IF RaisesForStatus(status)
           THEN IndexFailed /\ ilog' = log
           ELSE IF ipage < Len(pages)
                THEN /\ ipage' = ipage + 1
                     /\ ifiles' = files
                     /\ idirs' = subdirs
                     /\ ilog' = log
                     /\ UNCHANGED <<stack, ipath, iurl, bodyv, upv, waitv, pc,
                                    exit_code, iret>>
                ELSE /\ DirBody(files, subdirs, 1, <<>>, <<>>, log)
                     /\ UNCHANGED <<exit_code, iret>>
    /\ UNCHANGED <<argv, buildv, builds, resv, remote>>

\* The GET of the old INDEX returns (or raises).
GetIndex(status) ==
    /\ pc = "getindex"
    /\ LET href == make_download_url(ifiles[ifile][2])
           log == Append(ilog, [op |-> "get", path |-> ipath, status |-> status])
       IN  IF RaisesForStatus(status)
           THEN IndexFailed /\ ilog' = log
           ELSE /\ DirBody(ifiles, idirs, ifile + 1, lines,
                           SplitLines(remote.contents[LinkKey(href)]), log)
                /\ UNCHANGED <<exit_code, iret>>
    /\ UNCHANGED <<argv, buildv, builds, resv, remote>>

-----------------------------------------------------------------------------
(* Bounded inputs *)

\* args.build holds at most MaxExplicit commits.
MaxExplicit == 1
\* args.upload_files holds at most MaxUploadFiles pairs.
MaxUploadFiles == 1

SeqsUpTo(S, n) == UNION {[1..k -> S] : k \in 0..n}

ExplicitCommits == {V510, DEADBEEF}

\* -U vmlinux.zst /Public/x86_64/vmlinux-5.10.0.zst
UploadPairs == {<<<<"vmlinux.zst">>, VmlinuxDst(KernelRelease(V510))>>}

Release(moniker, version) == [moniker |-> moniker, version |-> version]

\* An entry of a folder listing, and a link of list_shared_links.
Entry(filename, is_dir, href) == [filename |-> filename, is_dir |-> is_dir, href |-> href]
Link(tag, visibility, url) == [tag |-> tag, visibility |-> visibility, url |-> url]

RootUrl == <<"sh/r", "?", "dl", "=", "0">>
PublicRoot == Link("folder", "public", RootUrl)
TeamRoot == Link("folder", "team_only", RootUrl)
BareFolder == Link("folder", Missing, <<"sh/q", "?", "dl", "=", "0">>)
PublicFile == Link("file", "public", <<"s/f", "?", "dl", "=", "0">>)

AFile == Entry(<<"a">>, FALSE, <<"s/a", "?", "dl", "=", "0">>)
ZFile == Entry(<<"Z">>, FALSE, <<"s/Z">>)
RootIndex == Entry(INDEX, FALSE, <<"s/INDEX", "?", "rlkey", "=", "k", "&", "dl", "=", "0">>)
DDir == Entry(<<"d">>, TRUE, <<"sh/d", "?", "dl", "=", "0">>)
EDir == Entry(<<"e">>, TRUE, <<"sh/e", "?", "dl", "=", "0">>)
DAFile == Entry(<<"a">>, FALSE, <<"s/d/a", "?", "dl", "=", "0">>)
DIndex == Entry(INDEX, FALSE, <<"s/d/INDEX", "?", "dl", "=", "0">>)

\* The lines of a folder's index in listing order, files first.
ListedLines(entries) ==
    LET files == PageEntries(entries, FALSE)
    IN  [i \in DOMAIN files |-> FileLine(files[i][1], make_download_url(files[i][2]))]
        \o DirLines(PageEntries(entries, TRUE))

\* What an INDEX file can hold: the index of its folder as an earlier run
\* left it ("same"), its lines in listing order ("listed"), that index
\* without the end of its last line ("cut"), or nothing ("empty").
OldTexts == {"same", "listed", "cut", "empty"}

OldText(kind, entries) ==
    LET same == JoinLines(SortList(ListedLines(entries)))
    IN  CASE kind = "same" -> same
          [] kind = "listed" -> JoinLines(ListedLines(entries))
          [] kind = "cut" -> SubSeq(same, 1, Len(same) - 1)
          [] OTHER -> <<>>

\* The pages a folder is listed in when the server gives at most n: the
\* first pages hold an entry each, the last one the rest.
RECURSIVE Pages(_, _)
Pages(entries, n) ==
    IF n <= 1 \/ Len(entries) < 2 THEN <<entries>>
    ELSE <<SubSeq(entries, 1, 1)>> \o Pages(Tail(entries), n - 1)

\* A share with the root folder, its subfolders d and e (e is empty) and
\* the INDEX files of the root and of d.
Share(links, root, paged, old, d) ==
    [links |-> links,
     folders |-> ("sh/r" :> Pages(root, paged)) @@ ("sh/d" :> Pages(d, paged))
                 @@ ("sh/e" :> <<<<>>>>),
     contents |-> ("s/INDEX" :> OldText(old, root))
                  @@ ("s/d/INDEX" :> OldText("same", d))]

NoShare == [links |-> <<>>, folders |-> <<>>, contents |-> <<>>]

\* The shares main() meets when it is run with -i.
MainShares ==
    {Share(<<l>>, <<RootIndex, DDir>>, 1, "empty", <<DAFile>>) :
        l \in {PublicRoot, TeamRoot}}

\* get_available_kernel_releases as main() sees it: the call that produced
\* available is over.
ListLocals ==
    /\ published = <<>>
    /\ lreq = ListFolderRequest
    /\ lpc = "idle"
    /\ llog = <<>>

\* No call of make_download_url is followed on its own.
UrlLocals ==
    /\ raw_link = <<>>
    /\ rewritten = <<>>

\* The locals of update_index and walk_shared_folder before the call.
IndexLocals ==
    /\ stack = <<>>
    /\ ipath = <<>>
    /\ iurl = <<>>
    /\ ipage = 1
    /\ ifiles = <<>>
    /\ idirs = <<>>
    /\ ifile = 1
    /\ lines = <<>>
    /\ old_lines = <<>>
    /\ iret = <<>>
    /\ ilog = <<>>

\* No build directory exists, or that of deadbeef does, left by an earlier
\* run.
NoDirs == <<>>
OldDir == BuildDir(DEADBEEF) :> {"old"}

\* The state main() starts in, but for the inputs.
InitLocals ==
    /\ pc = "start"
    /\ exit_code = Running
    /\ to_build = <<>>
    /\ bi = 1
    /\ builds = <<>>
    /\ builds_succeeded = <<>>
    /\ builds_failed = <<>>
    /\ uploads_succeeded = <<>>
    /\ uploads_failed = <<>>
    /\ pending = <<>>
    /\ tasks = <<>>
    /\ queued = <<>>
    /\ wi = 1
    /\ wsucc = <<>>
    /\ wfail = <<>>
    /\ wret = "main"
    /\ wcalls = <<>>
    /\ IndexLocals

Init ==
    /\ ListLocals
    /\ UrlLocals
    /\ args \in [build : SeqsUpTo(ExplicitCommits, MaxExplicit),
                 build_kernel_org : BOOLEAN,
                 upload : BOOLEAN,
                 upload_files : SeqsUpTo(UploadPairs, MaxUploadFiles),
                 index : BOOLEAN]
    /\ in_git \in BOOLEAN
    /\ manifest = IF args.build_kernel_org
                  THEN <<Release("stable", Tail(V510))>>
                  ELSE <<>>
    /\ available \in IF args.build_kernel_org THEN {{}, {V510}} ELSE {{}}
    /\ dirs \in IF args.build = <<>> THEN {NoDirs} ELSE {NoDirs, OldDir}
    /\ remote \in IF args.index THEN MainShares ELSE {NoShare}
    /\ InitLocals

Next ==
    \/ Start
    \/ \E ok \in BOOLEAN : Fetched(ok)
    \/ QueueFiles
    \/ Loop
    \/ BuildDone
    \/ \E b \in DOMAIN builds, rc \in {0, 1} : RevParse(b, rc)
    \/ \E b \in DOMAIN builds, rc \in {0, 1} : Checkout(b, rc)
    \/ \E b \in DOMAIN builds, rc \in {0, 1} : Make(b, rc)
    \/ \E b \in DOMAIN builds, k \in DOMAIN NoGather, rc \in {0, 1} : KidExit(b, k, rc)
    \/ \E b \in DOMAIN builds : GatherRaise(b)
    \/ \E b \in DOMAIN builds : GatherReturn(b)
    \/ AfterLoop
    \/ WaitStep
    \/ WaitReturn
    \/ Report
    \/ \E status \in Statuses : Links(status)
    \/ \E status \in Statuses : ListPage(status)
    \/ \E status \in Statuses : GetIndex(status)
    \/ \E t \in DOMAIN tasks, opens \in BOOLEAN : TaskRun(t, opens)
    \/ \E t \in DOMAIN tasks, status \in Statuses, sid \in {"sid1", Missing} :
            TaskResponse(t, status, sid)

Spec == Init /\ [][Next]_vars

-----------------------------------------------------------------------------
(* One upload, for payloads of every length around the chunk boundaries *)

UploadSizes == {k * CHUNK_SIZE + d : k \in 0..MaxChunks, d \in {0, 1, CHUNK_SIZE - 1}}

\* main() (or update_index) is in uploader.wait() and awaits the one task
\* of the batch: the upload of a file given with -U, or of an INDEX.
InitUpload ==
    /\ \E caller \in {"main", "index"}, size \in UploadSizes :
         LET dst == IF caller = "main" THEN VmlinuxDst(KernelRelease(V510))
                                       ELSE <<"/Public/">> \o IndexPath(<<>>)
             commit == IF caller = "main" THEN MakeCommit(dst, <<>>, <<FALSE>>)
                                          ELSE MakeCommit(dst, <<"overwrite">>, <<>>)
             U == Enqueue([pending |-> <<>>, tasks |-> <<>>, queued |-> <<>>],
                          IF caller = "main" THEN "file" ELSE "obj", size, commit)
         IN  /\ args = [build |-> <<>>, build_kernel_org |-> FALSE, upload |-> FALSE,
                        upload_files |-> IF caller = "main"
                                         THEN <<<<<<"vmlinux.zst">>, dst>>>> ELSE <<>>,
                        index |-> caller = "index"]
             /\ pending = U.pending
             /\ tasks = U.tasks
             /\ queued = U.queued
             /\ wret = caller
    /\ in_git = TRUE
    /\ manifest = <<>>
    /\ available = {}
    /\ ListLocals
    /\ UrlLocals
    /\ dirs = NoDirs
    /\ remote = NoShare
    /\ pc = "wait"
    /\ exit_code = Running
    /\ to_build = <<>>
    /\ bi = 1
    /\ builds = <<>>
    /\ builds_succeeded = <<>>
    /\ builds_failed = <<>>
    /\ uploads_succeeded = <<>>
    /\ uploads_failed = <<>>
    /\ wi = 1
    /\ wsucc = <<>>
    /\ wfail = <<>>
    /\ wcalls = <<>>
    /\ IndexLocals

NextUpload ==
    \/ \E t \in DOMAIN tasks, opens \in BOOLEAN : TaskRun(t, opens)
    \/ \E t \in DOMAIN tasks, status \in UploadStatuses,
          sid \in SessionIds \cup {Missing} :
            TaskResponse(t, status, sid)

SpecUpload == InitUpload /\ [][NextUpload]_vars

-----------------------------------------------------------------------------
(* The build queue, for every command line and catalog within the bounds *)

\* releases.json lists at most MaxManifest releases.
MaxManifest == 3
\* args.build holds at most MaxQueueExplicit commits.
MaxQueueExplicit == 2

ManifestReleases ==
    {Release(m, v) : m \in {"stable", "linux-next"},
                     v \in {Tail(V510), Tail(V543), <<"3", ".", "16", ".", "85">>}}

InitQueue ==
    /\ ListLocals
    /\ UrlLocals
    /\ args \in [build : SeqsUpTo(ExplicitCommits, MaxQueueExplicit),
                 build_kernel_org : BOOLEAN,
                 upload : {FALSE},
                 upload_files : {<<>>},
                 index : {FALSE}]
    /\ in_git = TRUE
    /\ manifest \in SeqsUpTo(ManifestReleases, MaxManifest)
    /\ available \in SUBSET {V510, V543}
    /\ dirs = NoDirs
    /\ remote = NoShare
    /\ InitLocals

NextQueue ==
    \/ Start
    \/ \E ok \in BOOLEAN : Fetched(ok)

SpecQueue == InitQueue /\ [][NextQueue]_vars

-----------------------------------------------------------------------------
(* The build loop alone: main() run with -b only *)

BuildCommits == ExplicitCommits \cup {V543}

InitBuild ==
    /\ ListLocals
    /\ UrlLocals
    /\ args \in [build : SeqsUpTo(BuildCommits, MaxQueueExplicit) \ {<<>>},
                 build_kernel_org : {FALSE},
                 upload : {FALSE},
                 upload_files : {<<>>},
                 index : {FALSE}]
    /\ in_git = TRUE
    /\ manifest = <<>>
    /\ available = {}
    /\ dirs \in {NoDirs, OldDir}
    /\ remote = NoShare
    /\ InitLocals

NextBuild ==
    \/ Start
    \/ QueueFiles
    \/ Loop
    \/ BuildDone
    \/ \E b \in DOMAIN builds, rc \in {0, 1} : RevParse(b, rc)
    \/ \E b \in DOMAIN builds, rc \in {0, 1} : Checkout(b, rc)
    \/ \E b \in DOMAIN builds, rc \in {0, 1} : Make(b, rc)
    \/ \E b \in DOMAIN builds, k \in DOMAIN NoGather, rc \in {0, 1} : KidExit(b, k, rc)
    \/ \E b \in DOMAIN builds : GatherRaise(b)
    \/ \E b \in DOMAIN builds : GatherReturn(b)
    \/ AfterLoop
    \/ Report

SpecBuild == InitBuild /\ [][NextBuild]_vars

-----------------------------------------------------------------------------
(* update_index alone, for every share within the bounds *)

\* Folders are listed in up to MaxPages pages.
MaxPages == 2

LinkLists ==
    {<<>>, <<PublicFile>>, <<TeamRoot>>, <<BareFolder>>, <<PublicRoot>>,
     <<PublicFile, PublicRoot>>, <<BareFolder, PublicRoot>>, <<TeamRoot, PublicRoot>>}

RootFiles == {<<>>, <<ZFile, AFile>>, <<RootIndex, AFile>>, <<AFile, RootIndex>>}
RootDirs == {<<>>, <<DDir>>, <<EDir, DDir>>}
DFiles == {<<>>, <<DAFile>>, <<DAFile, DIndex>>}

IndexShares ==
    {Share(links, <<RootIndex, DDir>>, 1, "same", <<DAFile>>) :
        links \in {l \in LinkLists : FindLink(l) = 0}}
    \cup {Share(links, files \o sub, paged, old, d) :
            links \in {l \in LinkLists : FindLink(l) # 0},
            files \in RootFiles, sub \in RootDirs,
            paged \in 1..MaxPages,
            old \in OldTexts, d \in DFiles}

\* main() calls update_index: nothing was built, nothing is pending.
InitIndex ==
    /\ args = [build |-> <<>>, build_kernel_org |-> FALSE, upload |-> FALSE,
               upload_files |-> <<>>, index |-> TRUE]
    /\ in_git = TRUE
    /\ manifest = <<>>
    /\ available = {}
    /\ ListLocals
    /\ UrlLocals
    /\ dirs = NoDirs
    /\ remote \in IndexShares
    /\ pc = "links"
    /\ exit_code = Running
    /\ to_build = <<>>
    /\ bi = 1
    /\ builds = <<>>
    /\ builds_succeeded = <<>>
    /\ builds_failed = <<>>
    /\ uploads_succeeded = <<>>
    /\ uploads_failed = <<>>
    /\ pending = <<>>
    /\ tasks = <<>>
    /\ queued = <<>>
    /\ wi = 1
    /\ wsucc = <<>>
    /\ wfail = <<>>
    /\ wret = "main"
    /\ wcalls = <<>>
    /\ IndexLocals

NextIndex ==
    \/ \E status \in Statuses : Links(status)
    \/ \E status \in Statuses : ListPage(status)
    \/ \E status \in Statuses : GetIndex(status)
    \/ \E t \in DOMAIN tasks, opens \in BOOLEAN : TaskRun(t, opens)
    \/ \E t \in DOMAIN tasks, status \in Statuses, sid \in {"sid1", Missing} :
            TaskResponse(t, status, sid)
    \/ WaitStep
    \/ WaitReturn

SpecIndex == InitIndex /\ [][NextIndex]_vars

-----------------------------------------------------------------------------
(* get_available_kernel_releases alone, for every listing within the bounds *)

\* /Public/x86_64 holds at most MaxEntries entries.
MaxEntries == 2

Vmlinux(release) == <<"vmlinux-">> \o release \o <<".zst">>

\* Names the folder can hold: images and compressed vmlinux files of
\* releases, and names the pattern leaves out.
PublishedNames ==
    {Vmlinux(<<"5", ".", "10", ".", "0">>),
     Vmlinux(<<"5", ".", "4", ".", "3">>),
     Vmlinux(<<"5", ".", "8", ".", "0", "-rc", "2">>),
     Vmlinux(<<"5", ".", "10", ".", "00">>),
     Vmlinux(<<"5", ".", "10">>),
     Vmlinux(<<"5", ".", "8", ".", "0", "-rc">>),
     Vmlinux(<<"5", ".", "4", ".", "3">>) \o <<".part">>,
     <<"vmlinuz-", "5", ".", "10", ".", "0">>,
     INDEX}

\* An entry of a list_folder response.
Metadata(tag, name) == [tag |-> tag, name |-> name]

PublishedEntries ==
    {Metadata("file", name) : name \in PublishedNames}
    \cup {Metadata("folder", Vmlinux(<<"5", ".", "4", ".", "3">>))}

Listings ==
    {Pages(entries, paged) : entries \in SeqsUpTo(PublishedEntries, MaxEntries),
                             paged \in 1..MaxPages}

\* main() run with -k has called asyncio.gather: the first request of
\* get_available_kernel_releases is on its way.
InitAvailable ==
    /\ args = [build |-> <<>>, build_kernel_org |-> TRUE, upload |-> FALSE,
               upload_files |-> <<>>, index |-> FALSE]
    /\ in_git = TRUE
    /\ manifest = <<Release("stable", Tail(V510))>>
    /\ available = {}
    /\ published \in Listings
    /\ lreq = ListFolderRequest
    /\ lpc = "request"
    /\ llog = <<>>
    /\ UrlLocals
    /\ dirs = NoDirs
    /\ remote = NoShare
    /\ pc = "fetch"
    /\ exit_code = Running
    /\ to_build = <<>>
    /\ bi = 1
    /\ builds = <<>>
    /\ builds_succeeded = <<>>
    /\ builds_failed = <<>>
    /\ uploads_succeeded = <<>>
    /\ uploads_failed = <<>>
    /\ pending = <<>>
    /\ tasks = <<>>
    /\ queued = <<>>
    /\ wi = 1
    /\ wsucc = <<>>
    /\ wfail = <<>>
    /\ wret = "main"
    /\ wcalls = <<>>
    /\ IndexLocals

NextAvailable == \E response \in ListResponses : ListFolder(response)

SpecAvailable == InitAvailable /\ [][NextAvailable]_vars

-----------------------------------------------------------------------------
(* The walk of update_index, for every tree of folders within the bounds *)

\* The share holds at most MaxDirs folders, its root included.
MaxDirs == 5

\* A tree of n folders: folder 1 is the root, parent[i] < i is the folder
\* that folder i is in.
Trees ==
    UNION {{parent \in [2..n -> 1..n] : \A i \in 2..n : parent[i] < i} : n \in 1..MaxDirs}

\* The name of folder i and the key of its shared link.
DirNames == <<"r", "a", "d", "e", "X", "D", "E">>
DirKeys == <<"sh/r", "sh/a", "sh/d", "sh/e", "sh/X", "sh/D", "sh/E">>

DirEntry(i) == Entry(<<DirNames[i]>>, TRUE, <<DirKeys[i], "?", "dl", "=", "0">>)

\* The listing of folder i: the file Z in the root, then the subfolders.
RECURSIVE Children(_, _, _)
Children(parent, i, j) ==
    IF j \notin DOMAIN parent THEN <<>>
    ELSE (IF parent[j] = i THEN <<DirEntry(j)>> ELSE <<>>) \o Children(parent, i, j + 1)

TreeShare(parent, paged) ==
    [links |-> <<PublicRoot>>,
     folders |-> [key \in {DirKeys[i] : i \in {1} \cup DOMAIN parent} |->
                    LET i == CHOOSE k \in 1..Len(DirKeys) : DirKeys[k] = key
                    IN  Pages((IF i = 1 THEN <<ZFile>> ELSE <<>>) \o Children(parent, i, 2),
                              paged)],
     contents |-> <<>>]

InitWalk ==
    /\ args = [build |-> <<>>, build_kernel_org |-> FALSE, upload |-> FALSE,
               upload_files |-> <<>>, index |-> TRUE]
    /\ in_git = TRUE
    /\ manifest = <<>>
    /\ available = {}
    /\ ListLocals
    /\ UrlLocals
    /\ dirs = NoDirs
    /\ remote \in {TreeShare(parent, paged) : parent \in Trees, paged \in 1..MaxPages}
    /\ pc = "links"
    /\ exit_code = Running
    /\ to_build = <<>>
    /\ bi = 1
    /\ builds = <<>>
    /\ builds_succeeded = <<>>
    /\ builds_failed = <<>>
    /\ uploads_succeeded = <<>>
    /\ uploads_failed = <<>>
    /\ pending = <<>>
    /\ tasks = <<>>
    /\ queued = <<>>
    /\ wi = 1
    /\ wsucc = <<>>
    /\ wfail = <<>>
    /\ wret = "main"
    /\ wcalls = <<>>
    /\ IndexLocals

\* The requests of the walk; the upload tasks it queues wait for
\* uploader.wait().
NextWalk ==
    \/ \E status \in Statuses : Links(status)
    \/ \E status \in Statuses : ListPage(status)

SpecWalk == InitWalk /\ [][NextWalk]_vars

\* Every request of the walk gets its response, an error or a result: the
\* session's timeout turns a missing response into an exception.
Answered ==
    \/ Links(409) \/ Links(200)
    \/ ListPage(409) \/ ListPage(200)

SpecWalkFair == SpecWalk /\ WF_vars(Answered)

-----------------------------------------------------------------------------
(* make_download_url alone, for every link within the bounds *)

\* The query of a link holds at most MaxFields fields.
MaxFields == 3

\* The text between two "&" of a query.
QueryFields ==
    {<<"dl", "=", "0">>, <<"dl", "=", "1">>, <<"d%6C", "=", "0">>,
     <<"rlkey", "=", "k">>, <<"st", "=", "x", "%20", "y">>, <<"e", "=", "b", "=", "c">>,
     <<"raw", "=">>, <<"raw">>, <<>>}

RECURSIVE JoinFields(_)
JoinFields(fields) ==
    IF fields = <<>> THEN <<>>
    ELSE fields[1] \o (IF Len(fields) > 1 THEN <<"&">> \o JoinFields(Tail(fields))
                                          ELSE <<>>)

\* Links with and without a query and a fragment.
TestLinks ==
    {<<"s/a">> \o q \o f :
        q \in {<<>>} \cup {<<"?">> \o JoinFields(fields) :
                             fields \in SeqsUpTo(QueryFields, MaxFields)},
        f \in {<<>>, <<"#", "top">>}}

InitUrl ==
    /\ args = [build |-> <<>>, build_kernel_org |-> FALSE, upload |-> FALSE,
               upload_files |-> <<>>, index |-> TRUE]
    /\ in_git = TRUE
    /\ manifest = <<>>
    /\ available = {}
    /\ ListLocals
    /\ raw_link \in TestLinks
    /\ rewritten = <<>>
    /\ dirs = NoDirs
    /\ remote = NoShare
    /\ InitLocals

\* make_download_url is applied to the link, then to what it returned.
Rewrite ==
    /\ Len(rewritten) < 2
    /\ rewritten' = Append(rewritten,
                           make_download_url(IF rewritten = <<>> THEN raw_link
                                             ELSE rewritten[Len(rewritten)]))
    /\ UNCHANGED <<args, in_git, manifest, available, listv, raw_link, buildv, builds,
                   upv, waitv, resv, idxv, pc, exit_code>>

NextUrl == Rewrite

SpecUrl == InitUrl /\ [][NextUrl]_vars

-----------------------------------------------------------------------------
(* Properties of one upload (_upload_file_obj) *)

EndpointOf(request) == request.url[3]

Endpoints(tk) == [i \in DOMAIN tk.log |-> EndpointOf(tk.log[i])]

\* _upload_file_obj has been entered: the task has run and open() succeeded.
Entered(tk) == tk.st # "new" /\ tk.error # "open"

\* The task is over and _upload_file_obj returned normally.
Succeeded(tk) == tk.st = "done" /\ tk.result

Whole(tk) == [lo |-> 0, hi |-> tk.size]

SingleShot(tk) ==
    [url |-> CONTENT_API_URL \o <<"/2/files/", "upload">>,
     params |-> tk.commit, data |-> Whole(tk)]

RECURSIVE SentBefore(_, _)
\* The number of payload bytes sent in the requests before request i.
SentBefore(tk, i) ==
    IF i <= 1 THEN 0 ELSE SentBefore(tk, i - 1) + LenData(tk.log[i - 1].data)

IsPrefix(s, t) == Len(s) <= Len(t) /\ s = SubSeq(t, 1, Len(s))

\* C1 as claimed: a payload of exactly CHUNK_SIZE bytes is sent with one
\* single-shot "upload" request and no session is started.
C1_OneChunkSingleShot ==
    \A t \in DOMAIN tasks :
        tasks[t].size = CHUNK_SIZE /\ Entered(tasks[t])
            => tasks[t].log = <<SingleShot(tasks[t])>>

\* C1 as amended: a payload of exactly CHUNK_SIZE bytes is never sent
\* single-shot.  Its first read is a full chunk, so a session is started
\* with the whole payload as the body of "upload_session/start" (empty
\* arguments); the next read is empty and the session is finished at offset
\* CHUNK_SIZE with the commit metadata and an empty body.  A successful
\* upload therefore issues exactly these two requests.
C1_OneChunkStartsSession ==
    \A t \in DOMAIN tasks :
        LET tk == tasks[t] IN
        tk.size = CHUNK_SIZE /\ Entered(tk) =>
            /\ Len(tk.log) \in {1, 2}
            /\ tk.log[1] = [url |-> CONTENT_API_URL \o <<"/2/files/", "upload_session/start">>,
                            params |-> <<>>, data |-> Whole(tk)]
            /\ Len(tk.log) = 2 =>
                  tk.log[2] = [url |-> CONTENT_API_URL \o <<"/2/files/", "upload_session/finish">>,
                               params |-> [cursor |-> [offset |-> CHUNK_SIZE,
                                                       session_id |-> tk.sid_given],
                                           commit |-> tk.commit],
                               data |-> [lo |-> CHUNK_SIZE, hi |-> CHUNK_SIZE]]
            /\ Succeeded(tk) => Len(tk.log) = 2

C1_Witness ==
    \E t \in DOMAIN tasks : tasks[t].size = CHUNK_SIZE /\ Succeeded(tasks[t])

\* C2: a payload shorter than CHUNK_SIZE (the empty one too) is sent with
\* exactly one request, to "upload", with the commit metadata as arguments
\* and the whole payload as body; no start, append or finish is issued,
\* whether the request succeeds or fails.
C2_ShortPayloadSingleShot ==
    \A t \in DOMAIN tasks :
        tasks[t].size < CHUNK_SIZE /\ Entered(tasks[t])
            => tasks[t].log = <<SingleShot(tasks[t])>>

C2_Witness ==
    \E t \in DOMAIN tasks : tasks[t].size = CHUNK_SIZE - 1 /\ Succeeded(tasks[t])

\* C3 as claimed: a payload of CHUNK_SIZE + 1 bytes is sent as start,
\* append, finish, and the offsets used sum to the payload size.
C3_StartAppendFinish ==
    \A t \in DOMAIN tasks :
        LET tk == tasks[t] IN
        tk.size = CHUNK_SIZE + 1 /\ Succeeded(tk) =>
            /\ Endpoints(tk) = <<"upload_session/start", "upload_session/append_v2",
                                 "upload_session/finish">>
            /\ tk.log[2].params.cursor.offset + tk.log[3].params.cursor.offset = tk.size

\* C3 as amended: a payload of CHUNK_SIZE + 1 bytes is sent as start, then
\* finish, with no append: start carries the first CHUNK_SIZE bytes, finish
\* carries the cursor offset CHUNK_SIZE and the last byte, so that the
\* offset of the finish plus the length of its body is the payload size.
C3_StartFinish ==
    \A t \in DOMAIN tasks :
        LET tk == tasks[t] IN
        tk.size = CHUNK_SIZE + 1 /\ Entered(tk) =>
            /\ IsPrefix(Endpoints(tk), <<"upload_session/start", "upload_session/finish">>)
            /\ Succeeded(tk) => Len(tk.log) = 2
            /\ tk.log[1].data = [lo |-> 0, hi |-> CHUNK_SIZE]
            /\ Len(tk.log) = 2 =>
                  /\ tk.log[2].params.cursor.offset = CHUNK_SIZE
                  /\ tk.log[2].data = [lo |-> CHUNK_SIZE, hi |-> CHUNK_SIZE + 1]
                  /\ tk.log[2].params.cursor.offset + LenData(tk.log[2].data) = tk.size

C3_Witness ==
    \E t \in DOMAIN tasks : tasks[t].size = CHUNK_SIZE + 1 /\ Succeeded(tasks[t])

\* C4: the cursor offset of every append and finish request is the number
\* of payload bytes sent in the earlier requests of the upload (those of the
\* start request included), and the offsets never decrease from one request
\* to the next.
C4_CursorOffset ==
    \A t \in DOMAIN tasks :
        LET tk == tasks[t] IN
        /\ \A i \in DOMAIN tk.log :
              "cursor" \in DOMAIN tk.log[i].params
                  => tk.log[i].params.cursor.offset = SentBefore(tk, i)
        /\ \A i, j \in DOMAIN tk.log :
              /\ i < j
              /\ "cursor" \in DOMAIN tk.log[i].params
              /\ "cursor" \in DOMAIN tk.log[j].params
              => tk.log[i].params.cursor.offset <= tk.log[j].params.cursor.offset

C4_Witness ==
    \E t \in DOMAIN tasks :
        /\ Succeeded(tasks[t])
        /\ Len(tasks[t].log) >= 3
        /\ tasks[t].log[3].params.cursor.offset = 2 * CHUNK_SIZE

\* C5: a payload that does not end within the first chunk is sent as one
\* start with empty arguments, then appends, then one finish: every append
\* and finish names the session the start response opened, the finish
\* carries the commit metadata, nothing follows the finish, and a
\* successful upload ends with the finish after one append per further
\* whole chunk.
C5_SessionSequence ==
    \A t \in DOMAIN tasks :
        LET tk == tasks[t] IN
        tk.size >= CHUNK_SIZE /\ Entered(tk) =>
            /\ tk.log # <<>>
            /\ EndpointOf(tk.log[1]) = "upload_session/start"
            /\ tk.log[1].params = <<>>
            /\ \A i \in 2..Len(tk.log) :
                  /\ tk.sid_given \in SessionIds
                  /\ tk.log[i].params.cursor.session_id = tk.sid_given
                  /\ \/ /\ EndpointOf(tk.log[i]) = "upload_session/append_v2"
                        /\ DOMAIN tk.log[i].params = {"cursor"}
                     \/ /\ EndpointOf(tk.log[i]) = "upload_session/finish"
                        /\ DOMAIN tk.log[i].params = {"cursor", "commit"}
                        /\ tk.log[i].params.commit = tk.commit
                        /\ i = Len(tk.log)
            /\ Succeeded(tk) =>
                  /\ EndpointOf(tk.log[Len(tk.log)]) = "upload_session/finish"
                  /\ Len(tk.log) = (tk.size \div CHUNK_SIZE) + 1

C5_Witness ==
    \E t \in DOMAIN tasks :
        /\ Succeeded(tasks[t])
        /\ tasks[t].size >= 2 * CHUNK_SIZE
        /\ tasks[t].sid_given = "sid2"

-----------------------------------------------------------------------------
(* Properties of the Upload Coordinator (queue_file, queue_file_obj, wait) *)

Paths(batch) == [i \in DOMAIN batch |-> batch[i].path]

TasksOf(batch) == {batch[i].task : i \in DOMAIN batch}

\* The entries of the batch whose task returned ok, in queue order.
WithResult(batch, ok) ==
    LET Is(entry) == tasks[entry.task].result = ok IN SelectSeq(batch, Is)

\* C6 as claimed, the part that fails: every destination of a batch is in
\* exactly one of the two lists wait returned.
C6_DestinationInOneList ==
    \A n \in DOMAIN wcalls : \A path \in Range(Paths(wcalls[n].batch)) :
        (path \in Range(wcalls[n].succeeded)) # (path \in Range(wcalls[n].failed))

\* C6 as amended: a wait call drains the batch once.  When it returns the
\* pending list is empty, no task of the batch is unfinished, and every
\* entry of the batch is reported once, in queue order: the destinations of
\* the succeeded tasks in the first list, those of the failed tasks in the
\* second, a destination queued twice being reported twice.  Every task the
\* Uploader created is either still pending or was reported by exactly one
\* wait call, so a task queued after a wait returned is reported by a later
\* call only.
C6_WaitDrainsOnce ==
    /\ \A n \in DOMAIN wcalls :
          /\ wcalls[n].left = <<>>
          /\ wcalls[n].unfinished = {}
          /\ wcalls[n].succeeded = Paths(WithResult(wcalls[n].batch, TRUE))
          /\ wcalls[n].failed = Paths(WithResult(wcalls[n].batch, FALSE))
          /\ Cardinality(TasksOf(wcalls[n].batch)) = Len(wcalls[n].batch)
    /\ \A m, n \in DOMAIN wcalls :
          m # n => TasksOf(wcalls[m].batch) \cap TasksOf(wcalls[n].batch) = {}
    /\ Cardinality(TasksOf(pending)) = Len(pending)
    /\ \A n \in DOMAIN wcalls : TasksOf(wcalls[n].batch) \cap TasksOf(pending) = {}
    /\ DOMAIN tasks = TasksOf(pending) \cup UNION {TasksOf(wcalls[n].batch) : n \in DOMAIN wcalls}

\* Two wait calls have returned, each with a batch of its own.
C6_Witness ==
    /\ Len(wcalls) = 2
    /\ wcalls[1].batch # <<>>
    /\ wcalls[2].batch # <<>>

\* C7 as claimed: no two pending tasks have the same destination path.
C7_UniqueDestinations ==
    \A i, j \in DOMAIN pending : i # j => pending[i].path # pending[j].path

\* C7 as amended: the pending batch is a list in queue order that is not
\* keyed by destination.  Every queue_file / queue_file_obj call appends one
\* entry with a task of its own, so the pending destinations are the
\* destinations queued since the last wait, in order, the same one as often
\* as it was queued.
C7_PendingIsQueueLog ==
    /\ Paths(pending) = queued
    /\ Cardinality(TasksOf(pending)) = Len(pending)
    /\ \A i \in DOMAIN pending : tasks[pending[i].task].commit["path"] = pending[i].path

\* The same destination is pending twice.
C7_Witness ==
    \E i, j \in DOMAIN pending : i # j /\ pending[i].path = pending[j].path

\* What the task itself met: open() raised, a response had an error status,
\* or the start response had no session id.
OwnFailure(tk) ==
    \/ tk.kind = "file" /\ tk.log = <<>>
    \/ \E i \in DOMAIN tk.statuses : tk.statuses[i] >= 400
    \/ /\ tk.statuses # <<>>
       /\ EndpointOf(tk.log[1]) = "upload_session/start"
       /\ tk.sid_given = None

-----------------------------------------------------------------------------
(* Properties of the build queue and of the build loop *)

\* The manifest releases that are not published, in manifest order.
NotPublished ==
    LET Absent(kernel) == kernel \notin available
    IN  IF args.build_kernel_org
        THEN SelectSeq(KernelOrgReleases(manifest), Absent) ELSE <<>>

FirstIndex(s, x) == CHOOSE i \in DOMAIN s : s[i] = x /\ \A j \in 1..(i - 1) : s[j] # x

\* C9: once computed, the build queue is the explicit commits, in the order
\* given, followed by the manifest releases that are not published, in
\* manifest order, every value once and at the place of its first
\* occurrence; a published manifest release is in it only if it was
\* requested explicitly.
C9_BuildQueue ==
    pc = "queue_files" =>
        LET all == args.build \o NotPublished IN
        /\ Range(to_build) = Range(all)
        /\ Cardinality(Range(to_build)) = Len(to_build)
        /\ \A i, j \in DOMAIN to_build :
              i < j => FirstIndex(all, to_build[i]) < FirstIndex(all, to_build[j])
        /\ Range(args.build) \subseteq Range(to_build)
        /\ \A kernel \in Range(to_build) :
              kernel \in available => kernel \in Range(args.build)

\* v5.10 is requested twice, listed in the manifest and published; v5.4.3
\* is listed and not published.
C9_Witness ==
    /\ pc = "queue_files"
    /\ args.build = <<V510, V510>>
    /\ args.build_kernel_org
    /\ {V510, V543} \subseteq Range(KernelOrgReleases(manifest))
    /\ available = {V510}
    /\ to_build = <<V510, V543>>

\* C10: at most one try_build_kernel call is in progress, and when the
\* call for an entry of the queue starts, the calls for the entries before
\* it have returned and main has recorded their outcomes.
C10_SequentialBuilds ==
    /\ Cardinality({b \in DOMAIN builds : builds[b].st # "returned"}) <= 1
    /\ \A b \in DOMAIN builds :
          /\ builds[b].commit = to_build[b]
          /\ b < Len(builds) =>
                /\ builds[b].st = "returned"
                /\ IF builds[b].result = <<>>
                   THEN builds[b].commit \in Range(builds_failed)
                   ELSE builds[b].commit \in Range(builds_succeeded)

\* The second build of the queue is compiling.
C10_Witness ==
    /\ Len(builds) = 2
    /\ builds[2].st = "make"

\* C11: main never waits for upload tasks between two builds, and the
\* uploads go on in the background while a build runs.  Uploader.wait is
\* called, by main or later by update_index, only when the for loop over
\* the queue is over and every build has returned; and while main awaits a
\* build, every upload task that has not started can start and every
\* request in flight can be answered.
C11_UploadsInBackground ==
    /\ (pc = "wait" \/ wcalls # <<>>) =>
          /\ bi > Len(to_build)
          /\ Len(builds) = Len(to_build)
          /\ \A b \in DOMAIN builds : builds[b].st = "returned"
    /\ (pc = "build" /\ builds[Len(builds)].st # "returned") =>
          \A t \in DOMAIN tasks :
              /\ tasks[t].st = "new" => ENABLED TaskRun(t, TRUE)
              /\ tasks[t].st = "await" => ENABLED TaskResponse(t, 200, "sid1")

\* The upload of the first build's vmlinux is in flight while the second
\* build of the queue is compiling.
C11_Witness ==
    /\ Len(builds) = 2
    /\ builds[2].st = "make"
    /\ \E t \in DOMAIN tasks :
          /\ tasks[t].commit["path"] = VmlinuxDst(KernelRelease(builds[1].commit))
          /\ tasks[t].st = "await"

-----------------------------------------------------------------------------
(* Properties of the run as a whole *)

\* C12 as claimed: a run that has ended failed exactly when a build
\* failed, an upload failed or the requested index synchronization failed.
C12_FailureIffListed ==
    pc = "exited" =>
        (exit_code # <<0>>) = (\/ builds_failed # <<>>
                               \/ uploads_failed # <<>>
                               \/ args.index /\ iret = <<FALSE>>)

\* C12 as amended: the step that ends the run gives status 1 exactly when
\* -b or -k was given outside a kernel repository, the fetch of the
\* kernel.org and published releases failed, a build failed, an upload
\* failed or update_index returned false, and status 0 otherwise.
C12_ExitStatus ==
    [][(pc # "exited" /\ pc' = "exited") =>
        exit_code' = <<IF \/ pc = "start" /\ ~in_git
                             /\ (args.build # <<>> \/ args.build_kernel_org)
                          \/ pc = "fetch"
                          \/ builds_failed # <<>>
                          \/ uploads_failed # <<>>
                          \/ iret' = <<FALSE>>
                       THEN 1 ELSE 0>>]_vars

\* The run failed in the fetch of the releases: no build, no upload and no
\* index synchronization failed.
C12_Witness ==
    /\ pc = "exited"
    /\ exit_code = <<1>>
    /\ in_git
    /\ args.build_kernel_org
    /\ builds = <<>>
    /\ tasks = <<>>
    /\ iret = <<>>

-----------------------------------------------------------------------------
(* Properties of the Kernel Builder (try_build_kernel) *)

\* The build's "git rev-parse --verify" exited with a status other than 0.
RevFailed(b) == \E e \in builds[b].ran : e.cmd = "git rev-parse" /\ e.rc # 0

\* A subprocess of the build exited with a status other than 0.
StepFailed(b) == \E e \in builds[b].ran : e.rc # 0

\* main has recorded the build, as failed.
RecordedFailed(b) ==
    /\ builds[b].commit \in Range(builds_failed)
    /\ builds[b].commit \notin Range(builds_succeeded)

\* C13: the build of a commit that is no valid revision fails at once.
\* Until rev-parse has exited the build has made no directory and run
\* nothing else; when rev-parse fails the build returns None having called
\* no os.mkdir and run no other command, its build directory does not exist
\* unless it was there before, and main records the commit as failed and
\* never as succeeded.
C13_UnknownRevision ==
    \A b \in DOMAIN builds :
        /\ builds[b].st = "revparse" => builds[b].ran = {} /\ builds[b].mkdir = <<>>
        /\ RevFailed(b) =>
              /\ builds[b].st = "returned"
              /\ builds[b].result = <<>>
              /\ builds[b].ran = {[cmd |-> "git rev-parse", rc |-> 1]}
              /\ builds[b].mkdir = <<>>
              /\ BuildDir(builds[b].commit) \in DOMAIN dirs =>
                    dirs[BuildDir(builds[b].commit)] = {"old"}
              /\ builds[b].commit \notin Range(builds_succeeded)
              /\ bi > b => RecordedFailed(b)

\* The loop is over; a commit whose rev-parse failed is recorded as failed
\* and has no build directory.
C13_Witness ==
    /\ pc = "report"
    /\ \E b \in DOMAIN builds :
          /\ RevFailed(b)
          /\ RecordedFailed(b)
          /\ BuildDir(builds[b].commit) \notin DOMAIN dirs

\* C14: when the build directory of a commit exists already (it holds the
\* file "old" an earlier run left), the build fails.  The directory keeps the files it had; once rev-parse has
\* succeeded the build has returned None after one os.mkdir call, which
\* raised, and has run no checkout and no build step; main records the
\* commit as failed.
C14_ExistingBuildDir ==
    \A b \in DOMAIN builds :
        LET build_dir == BuildDir(builds[b].commit) IN
        (build_dir \in DOMAIN dirs /\ "old" \in dirs[build_dir]) =>
            /\ dirs[build_dir] = OldDir[build_dir]
            /\ (builds[b].st # "revparse" /\ ~RevFailed(b)) =>
                  /\ builds[b].st = "returned"
                  /\ builds[b].result = <<>>
                  /\ builds[b].mkdir = <<"FileExistsError">>
                  /\ builds[b].ran = {[cmd |-> "git rev-parse", rc |-> 0]}
                  /\ bi > b => RecordedFailed(b)

\* main has recorded as failed a commit that is a valid revision and whose
\* build directory was there.
C14_Witness ==
    \E b \in DOMAIN builds :
        /\ builds[b].mkdir = <<"FileExistsError">>
        /\ bi > b
        /\ RecordedFailed(b)
        /\ dirs[BuildDir(builds[b].commit)] = {"old"}

\* The for loop over the queue is over.
LoopOver == pc \in {"after_loop", "wait", "report"}

\* C15: a subprocess of a build that exits with a status other than 0
\* makes try_build_kernel return None, and nothing else does but a build
\* directory that exists; no exception leaves the builder.  main records
\* every build that returned in exactly one of builds_succeeded and
\* builds_failed, by its result, goes on with the rest of the queue, and
\* when the loop is over every commit of the queue has been built and is
\* in exactly one of the two lists.
C15_SubprocessFailure ==
    /\ pc # "crashed"
    /\ \A b \in DOMAIN builds :
          /\ (StepFailed(b) /\ builds[b].st # "returned") =>
                /\ builds[b].st = "gather"
                /\ \E k \in DOMAIN builds[b].kids : builds[b].kids[k] = "raised"
          /\ builds[b].st = "returned" =>
                (builds[b].result = <<>>)
                    = (StepFailed(b) \/ builds[b].mkdir = <<"FileExistsError">>)
          /\ bi > b =>
                /\ (builds[b].commit \in Range(builds_failed)) = (builds[b].result = <<>>)
                /\ (builds[b].commit \in Range(builds_succeeded)) = (builds[b].result # <<>>)
    /\ LoopOver =>
          /\ Len(builds) = Len(to_build)
          /\ Len(builds_succeeded) + Len(builds_failed) = Len(to_build)
          /\ \A i \in DOMAIN to_build :
                (to_build[i] \in Range(builds_succeeded))
                    # (to_build[i] \in Range(builds_failed))

\* The loop is over: the first build failed in zstd, the second succeeded.
C15_Witness ==
    /\ LoopOver
    /\ Len(builds) = 2
    /\ [cmd |-> "zstd", rc |-> 1] \in builds[1].ran
    /\ builds_failed = <<builds[1].commit>>
    /\ builds_succeeded = <<builds[2].commit>>

-----------------------------------------------------------------------------
(* Properties of the Remote Index Synchronizer (update_index) *)

\* The requests of update_index that were answered with an error status.
FailedRequests == {i \in DOMAIN ilog : ilog[i].op # "dir" /\ ilog[i].status >= 400}

\* The folders update_index has processed to the end.
DirEvents == {i \in DOMAIN ilog : ilog[i].op = "dir"}

\* The share has a link of a folder whose visibility is public.
HasPublicLink ==
    \E i \in DOMAIN remote.links :
        remote.links[i].tag = "folder" /\ remote.links[i].visibility = "public"

\* The upload tasks with destination path.
TasksTo(path) == {t \in DOMAIN tasks : tasks[t].commit["path"] = path}

\* C16 as claimed: the run does not end, and update_index does not return,
\* while an upload task that was queued is unfinished.
C16_NoAbandonedUpload ==
    (pc \in {"exited", "crashed"} \/ iret # <<>>) =>
        \A t \in DOMAIN tasks : tasks[t].st = "done"

Occurrences(s, x) == Cardinality({i \in DOMAIN s : s[i] = x})

\* C17: for every folder update_index has processed, the lines compared
\* are the lines of the folder's files (with download links) and folders,
\* in ascending order; the old lines are those of the folder's INDEX file,
\* none when it has no such file.  When the two are equal no upload to the
\* folder's INDEX path exists; when they differ exactly one does, it has
\* mode overwrite and the new content's length.  A folder whose INDEX file
\* holds the index computed from its listing gets no upload.
C17_IndexComparison ==
    /\ \A i, j \in DirEvents : ilog[i].path = ilog[j].path => i = j
    /\ \A i \in DirEvents :
          LET e == ilog[i]
              listed == [k \in DOMAIN e.files |->
                            FileLine(e.files[k][1], make_download_url(e.files[k][2]))]
                        \o [k \in DOMAIN e.dirs |-> DirLine(e.dirs[k][1], e.dirs[k][2])]
              index == {k \in DOMAIN e.files : e.files[k][1] = INDEX}
              dst == <<"/Public/">> \o IndexPath(e.path)
          IN  /\ Len(e.lines) = Len(listed)
              /\ \A k \in DOMAIN listed :
                    Occurrences(e.lines, listed[k]) = Occurrences(listed, listed[k])
              /\ \A k, l \in DOMAIN e.lines : k < l => ~StrLess(e.lines[l], e.lines[k])
              /\ index = {} => e.old_lines = <<>>
              /\ \A k \in index :
                    LET text == remote.contents[LinkKey(e.files[k][2])]
                    IN  /\ JoinLines(e.old_lines) = text
                        /\ text = JoinLines(e.lines) => e.task = 0
              /\ (e.lines = e.old_lines) = (e.task = 0)
              /\ TasksTo(dst) = IF e.task = 0 THEN {} ELSE {e.task}
              /\ e.task # 0 =>
                    /\ tasks[e.task].kind = "obj"
                    /\ tasks[e.task].commit = MakeCommit(dst, <<"overwrite">>, <<>>)
                    /\ tasks[e.task].size = EncodedLen(JoinLines(e.lines))

\* The root's INDEX was up to date and not uploaded; that of its folder d,
\* which had none, was queued.
C17_Witness ==
    \E i, j \in DirEvents :
        /\ ilog[i].path = <<>>
        /\ ilog[i].lines # <<>>
        /\ ilog[i].task = 0
        /\ ilog[j].path = <<"d">>
        /\ ilog[j].task # 0

\* C18: without a folder link of public visibility update_index fails as a
\* whole.  Once list_shared_links is answered it has returned false, main
\* ends with status 1 and no uncaught exception, and nothing but that one
\* request was made: no folder was listed or processed, no upload queued.
C18_NoPublicLink ==
    (~HasPublicLink /\ ilog # <<>>) =>
        /\ iret = <<FALSE>>
        /\ pc = "exited"
        /\ exit_code = <<1>>
        /\ Len(ilog) = 1
        /\ ilog[1].op = "links"
        /\ tasks = <<>>
        /\ pending = <<>>
        /\ wcalls = <<>>

\* The share has a folder link, not public, and list_shared_links was
\* answered without error.
C18_Witness ==
    /\ remote.links = <<TeamRoot>>
    /\ ilog # <<>>
    /\ ilog[1].status = 200
    /\ iret = <<FALSE>>

\* C19: update_index never raises.  When it has returned, it returned true
\* exactly when the public link was found, no request of the crawl failed
\* and the wait it ended with reported no failed upload; with true, every
\* upload task has succeeded.
C19_IndexResult ==
    /\ pc # "crashed"
    /\ pc = "exited" => iret # <<>>
    /\ iret # <<>> =>
          /\ iret = <<(/\ HasPublicLink
                       /\ FailedRequests = {}
                       /\ wcalls # <<>>
                       /\ wcalls[Len(wcalls)].failed = <<>>)>>
          /\ iret = <<TRUE>> => \A t \in DOMAIN tasks : tasks[t].st = "done" /\ tasks[t].result
          /\ exit_code = IF iret = <<TRUE>> THEN <<0>> ELSE <<1>>

\* The crawl went through and an INDEX upload failed: update_index
\* returned false.
C19_Witness ==
    /\ iret = <<FALSE>>
    /\ FailedRequests = {}
    /\ wcalls # <<>>
    /\ wcalls[1].failed # <<>>

\* C20 as claimed: a failure in one folder does not keep update_index from
\* its sibling folders.  When update_index has returned, every folder
\* listed in a folder it processed has itself been listed.
C20_SiblingsStillProcessed ==
    iret # <<>> =>
        \A i \in DirEvents : \A k \in DOMAIN ilog[i].dirs :
            \E j \in DOMAIN ilog :
                /\ ilog[j].op = "list"
                /\ ilog[j].path = Pushes(ilog[i].path, ilog[i].dirs)[k][1]

\* C20 as amended: a failure in one folder ends the whole crawl.  A request
\* answered with an error status is the last thing update_index did: it
\* has returned false without uploader.wait(), and the folders then on the
\* stack are never listed.
C20_FailureAbortsCrawl ==
    \A i \in FailedRequests :
        /\ i = Len(ilog)
        /\ iret = <<FALSE>>
        /\ pc = "exited"
        /\ exit_code = <<1>>
        /\ wcalls = <<>>
        /\ \A k \in DOMAIN stack : \A j \in DOMAIN ilog :
              ilog[j].op = "list" => ilog[j].path # stack[k][1]

\* The listing of folder d failed while its sibling e was on the stack.
C20_Witness ==
    /\ ilog # <<>>
    /\ ilog[Len(ilog)].op = "list"
    /\ ilog[Len(ilog)].path = <<"d">>
    /\ ilog[Len(ilog)].status = 409
    /\ \E k \in DOMAIN stack : stack[k][1] = <<"e">>
    /\ iret = <<FALSE>>

-----------------------------------------------------------------------------
(* Properties of the published listing (get_available_kernel_releases) *)

\* The entries of the pages the function has fetched so far.
FetchedEntries ==
    UNION {Range(published[PageOf(llog[i].req)]) :
            i \in {j \in DOMAIN llog : llog[j].response = "ok"}}

\* C21: a path-not-found response from the listing endpoint is not an
\* error: the function returns normally, and the set it returns is empty.
C21_NotFoundIsEmpty ==
    \A i \in DOMAIN llog :
        llog[i].response = "not_found" => lpc = "returned" /\ available = {}

\* The optional "-rc<n>" of a file name.
RcSuffixes == {<<>>} \cup {<<"-rc", n>> : n \in DigitStrings}

\* The version the file name vmlinux-<major>.<minor>.<patch>[-rc<n>].zst is
\* published under.
PublishedAs(major, minor, patch, rc) ==
    <<"v", major, ".", minor>> \o (IF patch = "0" THEN <<>> ELSE <<".", patch>>) \o rc

\* C22: the set built from the listing holds, for every file of the pages
\* fetched that is named vmlinux-<major>.<minor>.<patch>[-rc<n>].zst, the
\* version v<major>.<minor> when patch is 0 and v<major>.<minor>.<patch>
\* otherwise, followed by the -rc<n> of the name; it holds nothing else, so
\* folders and other names contribute nothing.
C22_FilenameToVersion ==
    /\ \A e \in FetchedEntries, major \in DigitStrings, minor \in DigitStrings,
          patch \in DigitStrings, rc \in RcSuffixes :
            e = Metadata("file", Vmlinux(<<major, ".", minor, ".", patch>> \o rc))
                => PublishedAs(major, minor, patch, rc) \in available
    /\ \A v \in available :
          \E e \in FetchedEntries, major \in DigitStrings, minor \in DigitStrings,
             patch \in DigitStrings, rc \in RcSuffixes :
                /\ e = Metadata("file", Vmlinux(<<major, ".", minor, ".", patch>> \o rc))
                /\ v = PublishedAs(major, minor, patch, rc)
    /\ Metadata("file", Vmlinux(<<"5", ".", "10", ".", "0">>)) \in FetchedEntries
            => <<"v", "5", ".", "10">> \in available
    /\ Metadata("file", Vmlinux(<<"5", ".", "4", ".", "3">>)) \in FetchedEntries
            => <<"v", "5", ".", "4", ".", "3">> \in available
    /\ Metadata("file", Vmlinux(<<"5", ".", "8", ".", "0", "-rc", "2">>)) \in FetchedEntries
            => <<"v", "5", ".", "8", "-rc", "2">> \in available

\* Two pages were fetched: vmlinux-5.10.0.zst on the first, and
\* vmlinux-5.8.0-rc2.zst on the second.
C22_Witness ==
    /\ lpc = "returned"
    /\ Len(llog) = 2
    /\ published = <<<<Metadata("file", Vmlinux(<<"5", ".", "10", ".", "0">>))>>,
                     <<Metadata("file", Vmlinux(<<"5", ".", "8", ".", "0", "-rc", "2">>))>>>>
    /\ available = {<<"v", "5", ".", "10">>, <<"v", "5", ".", "8", "-rc", "2">>}

-----------------------------------------------------------------------------
(* Properties of make_download_url *)

\* A field of a query as a parameter: its name and its value, which is
\* blank when the field has no "=" or nothing after it.
FieldParam(field) ==
    LET i == IndexOf(field, "=")
    IN  IF i = 0 THEN <<Unquote(field), <<>>>>
        ELSE <<Unquote(SubSeq(field, 1, i - 1)), Unquote(SubSeq(field, i + 1, Len(field)))>>

\* The query parameters of a url, in their order.
Params(url) ==
    LET NotEmpty(field) == field # <<>>
        fields == SelectSeq(SplitOn(UrlSplit(url).query, "&"), NotEmpty)
    IN  [i \in DOMAIN fields |-> FieldParam(fields[i])]

IsDl(param) == param[1] = <<"dl">>
NotDl(param) == param[1] # <<"dl">>

\* C23: the rewritten link has exactly one dl parameter, dl=1, put at the
\* end of the query; the other parameters of the link keep their values
\* and their order; rewriting the result again changes nothing.
C23_DownloadUrl ==
    rewritten # <<>> =>
        LET out == Params(rewritten[1])
        IN  /\ SelectSeq(out, IsDl) = <<<<<<"dl">>, <<"1">>>>>>
            /\ out[Len(out)] = <<<<"dl">>, <<"1">>>>
            /\ SelectSeq(out, NotDl) = SelectSeq(Params(raw_link), NotDl)
            /\ Len(rewritten) = 2 => rewritten[2] = rewritten[1]

-----------------------------------------------------------------------------
(* Properties of the walk (walk_shared_folder) *)

\* The paths walk_shared_folder has yielded, in the order of the yields.
Yielded ==
    LET IsDir(event) == event.op = "dir"
        events == SelectSeq(ilog, IsDir)
    IN  [i \in DOMAIN events |-> events[i].path]

\* The entries of a folder, all its pages together.
RECURSIVE Flatten(_)
Flatten(pages) == IF pages = <<>> THEN <<>> ELSE pages[1] \o Flatten(Tail(pages))

\* The relative path of the entry called name in the folder at path.
Below(path, name) == IF path = <<>> THEN name ELSE path \o <<"/">> \o name

\* The relative paths of the folder behind url, which is at path, and of
\* all the folders below it.
RECURSIVE TreePaths(_, _)
TreePaths(path, url) ==
    LET subdirs == PageEntries(Flatten(remote.folders[LinkKey(url)]), TRUE)
    IN  {path} \cup UNION {TreePaths(Below(path, subdirs[i][1]), subdirs[i][2]) :
                            i \in DOMAIN subdirs}

\* path q is below path p in the tree.
IsUnder(q, p) ==
    /\ Len(q) > Len(p)
    /\ SubSeq(q, 1, Len(p)) = p
    /\ p = <<>> \/ q[Len(p) + 1] = "/"

\* The path of the folder that holds the folder at path (its name is one
\* token).
ParentPath(path) == SubSeq(path, 1, Len(path) - 2)

\* No folder is yielded twice; every yielded path is that of a folder of
\* the tree, the root's being empty; a folder is yielded after the folder
\* that holds it; once the walk has left the folders below a folder it does
\* not come back to them; and a walk that ends without a failed request has
\* yielded every folder of the tree.
WalkOrder ==
    LET root == remote.links[FindLink(remote.links)].url
        n == Len(Yielded)
    IN  /\ \A i, j \in 1..n : Yielded[i] = Yielded[j] => i = j
        /\ \A i \in 1..n : Yielded[i] \in TreePaths(<<>>, root)
        /\ n > 0 => Yielded[1] = <<>>
        /\ \A j \in 2..n : \E i \in 1..(j - 1) : Yielded[i] = ParentPath(Yielded[j])
        /\ \A i, j, k \in 1..n :
                i < j /\ j < k /\ IsUnder(Yielded[k], Yielded[i])
                    => IsUnder(Yielded[j], Yielded[i])
        /\ pc = "wait" => Range(Yielded) = TreePaths(<<>>, root)

\* The walk is over: update_index waits for its uploads, or it has
\* returned because a request failed.
WalkOver == pc \in {"wait", "exited"}

\* C24: the walk terminates; it yields every folder reachable from the
\* root exactly once, under the path of its parent joined by "/" with its
\* name, a folder before the folders below it, and the whole subtree of a
\* folder before any folder pushed earlier.
C24_WalkDepthFirst == []WalkOrder /\ <>WalkOver

\* The walk of root/{a/{e}, d} has ended: d, pushed last, was yielded
\* before a, and a/e right after a.
C24_Witness ==
    /\ pc = "wait"
    /\ Yielded = <<<<>>, <<"d">>, <<"a">>, <<"a", "/", "e">>>>

-----------------------------------------------------------------------------
(* Properties of the responses to an upload's requests *)

\* The response to the i-th request of the task ended the upload as a
\* failure: no request was issued after it, and the task returned False.
EndedBy(tk, i) ==
    /\ Len(tk.log) = i
    /\ Len(tk.statuses) = i
    /\ tk.st = "done"
    /\ tk.result = FALSE

\* C25 as stated: a response whose status is not 2xx ends the upload as a
\* failure.
C25_Non2xxEndsUpload ==
    \A t \in DOMAIN tasks : \A i \in DOMAIN tasks[t].statuses :
        tasks[t].statuses[i] \notin 200..299 => EndedBy(tasks[t], i)

\* C25: a response with a status of 400 or more to any request of an
\* upload ends the upload as a failure: no request follows it, and the
\* task's outcome is false.
C25_ErrorStatusEndsUpload ==
    \A t \in DOMAIN tasks : \A i \in DOMAIN tasks[t].statuses :
        tasks[t].statuses[i] >= 400
            => EndedBy(tasks[t], i) /\ tasks[t].error = "status"

\* The append request of a payload of more than two chunks was answered
\* with 409: the finish request was never issued.
C25_Witness ==
    \E t \in DOMAIN tasks :
        /\ tasks[t].size > 2 * CHUNK_SIZE
        /\ tasks[t].statuses = <<200, 409>>
        /\ EndpointOf(tasks[t].log[2]) = "upload_session/append_v2"
        /\ EndedBy(tasks[t], 2)

\* C26: the bodies of the requests of a successful upload, put end to end
\* in the order of the requests (the start request included), are the
\* payload: the first body starts at byte 0, each body starts where the one
\* before it ended, the last one ends with the payload; and every body but
\* the last is CHUNK_SIZE bytes long.
C26_NoByteLostOrDuplicated ==
    \A t \in DOMAIN tasks :
        LET tk == tasks[t]
            n == Len(tk.log)
        IN  Succeeded(tk) =>
                /\ n >= 1
                /\ tk.log[1].data.lo = 0
                /\ tk.log[n].data.hi = tk.size
                /\ \A i \in 1..n : tk.log[i].data.lo <= tk.log[i].data.hi
                /\ \A i \in 1..(n - 1) :
                      /\ tk.log[i + 1].data.lo = tk.log[i].data.hi
                      /\ LenData(tk.log[i].data) = CHUNK_SIZE

\* A payload of two chunks and one byte was uploaded in three requests
\* with bodies of CHUNK_SIZE, CHUNK_SIZE and 1 bytes.
C26_Witness ==
    \E t \in DOMAIN tasks :
        /\ Succeeded(tasks[t])
        /\ tasks[t].size = 2 * CHUNK_SIZE + 1
        /\ [i \in DOMAIN tasks[t].log |-> LenData(tasks[t].log[i].data)]
                = <<CHUNK_SIZE, CHUNK_SIZE, 1>>

-----------------------------------------------------------------------------
(* Properties of the gathered post-build steps *)

\* The subprocesses of build b that are running.
RunningKids(b) == {k \in DOMAIN b.kids : b.kids[k] \in {"objcopy", "zstd", "make"}}

\* C27: once try_build_kernel has returned, none of the three gathered
\* steps of that build is still running, so none runs while a later build
\* is at its checkout or compilation.
C27_NothingLeftRunning ==
    /\ \A b \in DOMAIN builds :
            builds[b].st = "returned" => RunningKids(builds[b]) = {}
    /\ \A b, c \in DOMAIN builds :
            b < c /\ builds[c].st \in {"checkout", "make"}
                => RunningKids(builds[b]) = {}

-----------------------------------------------------------------------------
(* Properties of the order of main: builds, uploads, index *)

\* update_index has been called.
IndexStarted == pc \in {"links", "listing", "getindex"} \/ ilog # <<>>

\* The upload tasks update_index has queued.
IndexTasks == {ilog[j].task : j \in {i \in DirEvents : ilog[i].task # 0}}

\* C28: update_index is called only with -i, after every build of the
\* queue has returned and left nothing running, after the uploads main
\* queued have been waited for, and only when no build and no upload
\* failed; a run in which one failed never calls it and queues no INDEX
\* upload; and the batch update_index waits for holds the uploads it queued
\* itself and no other.
C28_IndexAfterBuildsAndUploads ==
    /\ IndexStarted =>
            /\ args.index
            /\ Len(builds) = Len(to_build)
            /\ \A b \in DOMAIN builds :
                    builds[b].st = "returned" /\ RunningKids(builds[b]) = {}
            /\ builds_failed = <<>> /\ uploads_failed = <<>>
            /\ \A t \in DOMAIN tasks \ IndexTasks :
                    /\ tasks[t].st = "done"
                    /\ wcalls # <<>>
                    /\ \E i \in DOMAIN wcalls[1].batch : wcalls[1].batch[i].task = t
    /\ (builds_failed # <<>> \/ uploads_failed # <<>>) =>
            /\ ~IndexStarted
            /\ \A t \in DOMAIN tasks : tasks[t].kind = "file"
            /\ pc = "exited" => exit_code = <<1>>
    /\ (pc = "wait" /\ wret = "index") =>
            {pending[i].task : i \in DOMAIN pending} = IndexTasks

\* -b, -u and -i: the build succeeded, its two uploads succeeded, and
\* update_index waits for the INDEX uploads it queued.
C28_Witness ==
    /\ pc = "wait" /\ wret = "index"
    /\ builds_succeeded # <<>>
    /\ Len(uploads_succeeded) >= 2
    /\ pending # <<>>
    /\ \A i \in DOMAIN pending : tasks[pending[i].task].kind = "obj"

=============================================================================
